---- MODULE Spec2Model ----
(***************************************************************************)
(* Demurrage tracker: the mobile stop-event coordinator and its local      *)
(* store (src/src/services/tracking.ts, background.ts, database.ts), the   *)
(* motion classifier (src/src/services/motion.ts) and the backend tracking *)
(* routes (src/backend/src/middleware/auth.ts, services/tracking.service). *)
(*                                                                         *)
(* Every async function is cut at its awaits: a task's pc names the await  *)
(* it is suspended on; the awaited store operation takes effect when it is *)
(* called, and the code after the await runs in a later step.              *)
(***************************************************************************)
EXTENDS Integers, Sequences, FiniteSets, Bags, TLC

\* ---------------------------------------------------------------- bounds
MaxTime == 3            \* last clock tick of the mobile model
TicksPerMinute == 1     \* clock ticks in one minute (differenceInMinutes truncates)
WeekTicks == 3          \* clock ticks in one week
MaxEvents == 2          \* stop events the mobile store can hold
MaxTasks == 1           \* async invocations in flight in the mobile client
MaxThreshold == 1       \* largest threshold saveSettings is given
MaxIntervals == 2       \* refresh intervals scheduled at one time
MaxSamples == 3         \* accelerometer readings processed
MotionTickMs == 5000    \* milliseconds in one step of the classifier's clock
MaxBackendTime == 2     \* last tick of the database clock
BackendTicksPerMinute == 2  \* database clock ticks in one minute
BackendWeekTicks == 4   \* database clock ticks in one week
MaxUsers == 2           \* drivers with a token
MaxCompanies == 1       \* companies
MaxRequests == 2        \* backend requests in flight
MaxBackendEvents == 2   \* rows of stop_events
MaxSessions == 1        \* rows of user_sessions
MaxKeys == 3             \* encryption keys a device generates
MaxOverlap == 2         \* async invocations in flight in the coordinator's runs
MaxLogins == 3          \* rows of user_sessions in the runs of the login route
MaxTenants == 2         \* companies registered in the runs of the account routes
MaxAccounts == 3        \* rows of users
MaxInvitations == 1     \* rows of invitations
MaxVehicles == 1        \* rows of vehicles
MaxEmails == 2          \* email addresses
MaxRegos == 1           \* truck registrations
InvitationTicks == 1    \* database clock ticks an invitation stays valid

\* ------------------------------------------------------- program constants
DEFAULT_THRESHOLD == 50
DEFAULT_SETTINGS_THRESHOLD == 1
MOTION_THRESHOLD == 15              \* 0.15 g, in hundredths
SPEED_THRESHOLD == 15               \* 1.5 m/s, in tenths
STOP_CONFIRMATION_TIME == 10000
MOVEMENT_CONFIRMATION_TIME == 5000
BUFFER_SIZE == 10

None == <<>>
Some(x) == <<x>>
Val(o) == o[1]
NoTime == -1
NoReason == "none"
NoCallback == "none"
\* stop reasons startTracking is given: the dashboard passes none
Reasons == {}
\* a reason of type StopReason, for callers that pass one
StopReasons == {"other"}

VARIABLES
  \* mobile: clock and encrypted local store (database.ts, encryption.ts)
  now, encryptionKey, db, stopEvents, weeklyDemurrage, settings, nextId,
  \* mobile: the weeks of the weekly records an invoice is stored for
  invoices,
  \* mobile: tracking.ts module state
  isTracking, currentStopEvent, stateCallback, updateInterval, intervals,
  pendingReason,
  \* mobile: background.ts module state
  backgroundTracking,
  \* mobile: async invocations in flight, and how many of them the run
  \* lets be suspended at one time
  tasks, taskLimit,
  \* observation of the weekly records: for each stop event, the totals its
  \* week's record held when the event was first saved
  weeklyBefore,
  \* app start: the platform, the key kept in the device's key storage
  \* (0: none), how initializeDatabase ended and what its getSettings gave
  isWebPlatform, keyStore, initOutcome, settingsRead,
  \* the callback the classifier's runs register with the motion module
  \* keeps the parity of the number of its invocations and the isMoving it
  \* was last given
  observedCalls, observedMoving,
  \* motion.ts module state
  isRunning, motionCallback, isMoving,
  \* motion.ts: subscriptions, currentState.speed, smoothing buffers and
  \* confirmation timers
  accelerometerSubscription, locationSubscription, speed,
  accelerationBuffer, speedBuffer, pendingStateChange,
  stopConfirmationTimer, movementConfirmationTimer, leakedTimers,
  \* observation of the classifier: the kind of the current unbroken run of
  \* smoothed readings ("below", "above", "none") and the time it has lasted
  runKind, runMs,
  \* accelerometer readings processed so far
  samples,
  \* backend: database clock, tables and requests in flight
  bnow, companies, user_sessions, stop_events, weekly_demurrage, requests,
  \* backend: the tables users, invitations and vehicles, the number of
  \* user_sessions rows and of requests in flight the run lets exist, and
  \* the response the backend sent last
  users, invitations, vehicles, sessionLimit, requestLimit, response,
  \* backend: whether the database rounds an exact half to the even
  \* neighbour (the quotient is a double) or away from zero (it is numeric)
  roundsHalfToEven

mobileVars == <<now, encryptionKey, db, stopEvents, weeklyDemurrage, settings,
                nextId, isTracking, currentStopEvent, stateCallback,
                updateInterval, intervals, pendingReason, backgroundTracking, tasks,
                taskLimit, weeklyBefore, isWebPlatform, keyStore,
                initOutcome, settingsRead, observedCalls, observedMoving,
                invoices>>
observerVars == <<observedCalls, observedMoving>>
deviceVars == <<isWebPlatform, keyStore, initOutcome, settingsRead>>
runVars == <<taskLimit, weeklyBefore, deviceVars, observerVars>>
motionVars == <<isRunning, motionCallback, isMoving>>
classifierVars == <<accelerometerSubscription, locationSubscription, speed,
                    accelerationBuffer, speedBuffer, pendingStateChange,
                    stopConfirmationTimer, movementConfirmationTimer,
                    leakedTimers, runKind, runMs, samples>>
accountVars == <<users, invitations, vehicles, sessionLimit, requestLimit>>
backendVars == <<bnow, companies, user_sessions, stop_events,
                 weekly_demurrage, requests, roundsHalfToEven, accountVars,
                 response>>
clientVars == <<mobileVars, motionVars, classifierVars>>
vars == <<mobileVars, motionVars, classifierVars, backendVars>>

\* ------------------------------------------------------------- dateUtils
getCurrentTimestamp == now

getWeekStartISO(t) == (t \div WeekTicks) * WeekTicks

calculateDurationMinutes(startTime, endTime) ==
  (endTime - startTime) \div TicksPerMinute

isDemurrageEvent(durationMinutes, thresholdMinutes) ==
  durationMinutes > thresholdMinutes

\* settings?.demurrageThresholdMinutes || 50
thresholdMinutesOf(s) ==
  IF s = None THEN DEFAULT_THRESHOLD
  ELSE IF Val(s).demurrageThresholdMinutes = 0 THEN DEFAULT_THRESHOLD
  ELSE Val(s).demurrageThresholdMinutes

\* ------------------------------------------------------------ encryption
encryptWith(key, data) == [key |-> key, plain |-> data]
encrypt(data) == encryptWith(encryptionKey, data)
decrypt(c) == c.plain

\* ------------------------------------------------------ database.ts store
RECURSIVE SumDuration(_, _)
SumDuration(store, ids) ==
  IF ids = {} THEN 0
  ELSE LET id == CHOOSE x \in ids : TRUE
       IN decrypt(store[id].encrypted_data).durationMinutes
          + SumDuration(store, ids \ {id})

saveStopEvent(store, event) ==
  (event.id :> [encrypted_data |-> encrypt(event),
                week_start_date |-> event.weekStartDate,
                is_demurrage |-> event.isDemurrage,
                created_at |-> event.startTime]) @@ store

updateStopEvent(store, event) ==
  IF event.id \in DOMAIN store
  THEN [store EXCEPT ![event.id] =
          [@ EXCEPT !.encrypted_data = encrypt(event),
                    !.is_demurrage = event.isDemurrage]]
  ELSE store

\* the rows "ORDER BY created_at DESC LIMIT 1" may return for the week of t
LatestOfWeek(store, t) ==
  LET inWeek == {id \in DOMAIN store :
                   store[id].week_start_date = getWeekStartISO(t)}
  IN {id \in inWeek :
        \A o \in inWeek : store[o].created_at <= store[id].created_at}

\* the values getCurrentStopEvent may resolve to at time t
getCurrentStopEvent(store, t) ==
  IF LatestOfWeek(store, t) = {} THEN {None}
  ELSE {IF decrypt(store[id].encrypted_data).endTime = NoTime
        THEN Some(decrypt(store[id].encrypted_data)) ELSE None
        : id \in LatestOfWeek(store, t)}

getDemurrageEventsByWeek(store, weekStartDate) ==
  {id \in DOMAIN store : /\ store[id].week_start_date = weekStartDate
                         /\ store[id].is_demurrage}

getOrCreateWeeklyDemurrage(wd, start) ==
  IF start \in DOMAIN wd THEN wd
  ELSE (start :> [total_demurrage_minutes |-> 0, event_count |-> 0,
                  invoice_generated |-> FALSE, invoice_sent |-> FALSE]) @@ wd

updateWeeklyDemurrage(wd, weekStartDate, totalMinutes, eventCount) ==
  IF weekStartDate \in DOMAIN wd
  THEN [wd EXCEPT ![weekStartDate] =
          [@ EXCEPT !.total_demurrage_minutes = totalMinutes,
                    !.event_count = eventCount]]
  ELSE wd

getSettings(s) == IF s = None THEN None ELSE Some(decrypt(Val(s)))

\* the totals of the record of week start, zero when there is none
TotalsOf(wd, start) ==
  IF start \in DOMAIN wd
  THEN [event_count |-> wd[start].event_count,
        total |-> wd[start].total_demurrage_minutes]
  ELSE [event_count |-> 0, total |-> 0]

\* ------------------------------------------------------------------ tasks
IdleTask == [kind |-> "idle", pc |-> "done", isMoving |-> FALSE,
             settings |-> None, ev |-> None, t |-> 0, d |-> 0,
             week |-> 0, total |-> 0, count |-> 0]

\* the invocations in flight form a bag: two invocations suspended at the
\* same await with the same locals are two tasks
InFlight == BagToSet(tasks)
HasFree(ts) == BagCardinality(ts) < taskLimit
Add(ts, tk) == ts (+) SetToBag({tk})
Remove(ts, tk) == ts (-) SetToBag({tk})
Quiescent == tasks = EmptyBag

NewStopEvent(id, t, reason) ==
  [id |-> id, startTime |-> t, endTime |-> NoTime, durationMinutes |-> 0,
   isDemurrage |-> FALSE, weekStartDate |-> getWeekStartISO(t),
   reason |-> reason]

\* the envelope {success, data | message | error} of a response and its
\* status; status 0: nothing was sent yet
NoResponse == [status |-> 0, error |-> "", fields |-> {}]
Failure(status, error) ==
  [status |-> status, error |-> error, fields |-> {"success", "error"}]
Success(status, fields) ==
  [status |-> status, error |-> "", fields |-> {"success"} \cup fields]

InitTables ==
  /\ now = 0
  /\ encryptionKey = 0
  /\ db = FALSE
  /\ stopEvents = <<>>
  /\ weeklyDemurrage = <<>>
  /\ invoices = {}
  /\ settings = None
  /\ nextId = 1
  /\ isTracking = FALSE
  /\ currentStopEvent = None
  /\ stateCallback = FALSE
  /\ updateInterval = FALSE
  /\ intervals = 0
  /\ pendingReason = NoReason
  /\ backgroundTracking = FALSE
  /\ observedCalls = 0
  /\ observedMoving = TRUE
  /\ tasks = EmptyBag
  /\ weeklyBefore = <<>>
  /\ isRunning = FALSE
  /\ motionCallback = NoCallback
  /\ isMoving = TRUE
  /\ accelerometerSubscription = FALSE
  /\ locationSubscription = FALSE
  /\ speed = <<0, 1>>
  /\ accelerationBuffer = <<>>
  /\ speedBuffer = <<>>
  /\ pendingStateChange = "null"
  /\ stopConfirmationTimer = None
  /\ movementConfirmationTimer = None
  /\ leakedTimers = {}
  /\ runKind = "none"
  /\ runMs = 0
  /\ samples = 0
  /\ bnow = 0
  /\ user_sessions = <<>>
  /\ stop_events = <<>>
  /\ weekly_demurrage = <<>>
  /\ requests = EmptyBag
  /\ invitations = <<>>
  /\ vehicles = <<>>
  /\ response = NoResponse

\* the deployment the tracking routes run against: its companies with the
\* column default of demurrage_threshold_minutes, no row of users read
InitDeployment ==
  /\ companies = [c \in 1..MaxCompanies |->
                    [demurrage_threshold_minutes |-> DEFAULT_THRESHOLD]]
  /\ users = <<>>
  /\ sessionLimit = MaxSessions
  /\ requestLimit = MaxRequests

\* a native build whose start is not followed: appStore.initialize is one step
InitDevice ==
  /\ isWebPlatform = FALSE
  /\ keyStore = 0
  /\ initOutcome = "none"
  /\ settingsRead = "none"

\* the client runs against one deployment of the backend
Init ==
  InitTables /\ InitDeployment /\ InitDevice /\ roundsHalfToEven = FALSE
    /\ taskLimit = MaxTasks

\* the backend starts with empty tables on either kind of database
InitBackend ==
  InitTables /\ InitDeployment /\ InitDevice /\ roundsHalfToEven \in BOOLEAN
    /\ taskLimit = MaxTasks

\* ------------------------------------------------- app start and settings
\* appStore.initialize: initializeEncryption, then initializeDatabase, which
\* stores DEFAULT_SETTINGS when no settings row exists
initialize ==
  /\ ~db
  /\ encryptionKey' = 1
  /\ db' = TRUE
  /\ settings' = IF getSettings(settings) = None
                 THEN Some(encryptWith(1, [demurrageThresholdMinutes |->
                                             DEFAULT_SETTINGS_THRESHOLD]))
                 ELSE settings
  /\ UNCHANGED <<runVars, invoices, backendVars, classifierVars, now, stopEvents, weeklyDemurrage, nextId, isTracking,
                 currentStopEvent, stateCallback, updateInterval, intervals,
                 pendingReason, backgroundTracking, tasks,
                 motionVars>>

saveSettings(T) ==
  /\ db
  /\ settings' = Some(encrypt([demurrageThresholdMinutes |-> T]))
  /\ UNCHANGED <<runVars, invoices, backendVars, classifierVars, now, encryptionKey, db, stopEvents, weeklyDemurrage, nextId,
                 isTracking, currentStopEvent, stateCallback, updateInterval,
                 intervals, pendingReason, backgroundTracking,
                 tasks, motionVars>>

Tick ==
  /\ now < MaxTime
  /\ now' = now + 1
  /\ UNCHANGED <<runVars, invoices, backendVars, classifierVars, encryptionKey, db, stopEvents, weeklyDemurrage, settings,
                 nextId, isTracking, currentStopEvent, stateCallback,
                 updateInterval, intervals, pendingReason, backgroundTracking, tasks, motionVars>>

\* ------------------------------------------------------------ tracking.ts
NewTask(kind, pc) == [IdleTask EXCEPT !.kind = kind, !.pc = pc]
At(tk, pc) == tk.pc = pc
Become(tk, new) == Add(Remove(tasks, tk), new)
Goto(tk, pc) == Become(tk, [tk EXCEPT !.pc = pc])
Finish(tk) == Remove(tasks, tk)

\* handleMotionChange without the test that no stop event is current
handleMotionChangeAlwaysStarts(m, cur) ==
  IF ~m THEN "start"
  ELSE IF cur # None THEN "end"
  ELSE "none"

\* what handleMotionChange(m) starts before its first await, given the
\* current stop event cur: "start", "end" or "none"
handleMotionChangeBranch(m, cur) ==
  IF ~m /\ cur = None THEN "start"
  ELSE IF m /\ cur # None THEN "end"
  ELSE "none"

\* tasks after handleMotionChange(m) ran up to its first await
handleMotionChange(m, cur, ts) ==
  LET b == handleMotionChangeBranch(m, cur)
  IN IF b = "none" THEN ts
     ELSE Add(ts, [NewTask("handleMotionChange",
                           IF b = "start" THEN "sse_settings"
                           ELSE "ese_settings")
                   EXCEPT !.isMoving = m])

\* ============================================================== motion.ts
\* Speeds are tenths of a metre per second and accelerations hundredths of g;
\* currentState.speed and the speed buffer hold exact fractions <<n, d>>.
RECURSIVE GCD(_, _)
GCD(a, b) == IF b = 0 THEN a ELSE GCD(b, a % b)
Frac(n, d) == <<n \div GCD(n, d), d \div GCD(n, d)>>
FracAdd(x, y) == Frac(x[1] * y[2] + y[1] * x[2], x[2] * y[2])
FracGreater(x, k) == x[1] > k * x[2]

RECURSIVE SumInts(_)
SumInts(buffer) ==
  IF buffer = <<>> THEN 0 ELSE Head(buffer) + SumInts(Tail(buffer))

RECURSIVE SumFracs(_)
SumFracs(buffer) ==
  IF buffer = <<>> THEN Frac(0, 1)
  ELSE FracAdd(Head(buffer), SumFracs(Tail(buffer)))

\* the buffer after addToBuffer pushed value
addToBuffer(buffer, value) ==
  IF Len(buffer) + 1 > BUFFER_SIZE THEN Tail(Append(buffer, value))
  ELSE Append(buffer, value)

\* the average addToBuffer returns for a buffer of fractions
averageOf(buffer) ==
  Frac(SumFracs(buffer)[1], SumFracs(buffer)[2] * Len(buffer))

\* avgAcceleration > MOTION_THRESHOLD || avgSpeed > SPEED_THRESHOLD
isCurrentlyMoving(accelerations, speeds) ==
  \/ SumInts(accelerations) > MOTION_THRESHOLD * Len(accelerations)
  \/ FracGreater(averageOf(speeds), SPEED_THRESHOLD)

Speeds == {0, 2 * SPEED_THRESHOLD}
Accelerations == {0, 2 * MOTION_THRESHOLD}

\* setTimeout handles: None is null (a handle whose timer has fired behaves
\* as null: clearing it does nothing), Some(ms) a timer due in ms. A timer
\* whose handle was overwritten without clearTimeout stays armed in
\* leakedTimers (timers of equal kind and deadline are kept once).
Armed(kind, handle) ==
  IF handle = None THEN {} ELSE {[kind |-> kind, remaining |-> Val(handle)]}

Elapse(ms) == IF ms > MotionTickMs THEN ms - MotionTickMs ELSE 0

\* notifyStateChange: the registered callback runs up to its first await
notifyStateChange(m, ts) ==
  IF motionCallback = "handleMotionChange"
  THEN handleMotionChange(m, currentStopEvent, ts)
  ELSE ts

CanNotify(m, ts) ==
  (/\ motionCallback = "handleMotionChange"
   /\ handleMotionChangeBranch(m, currentStopEvent) # "none") => HasFree(ts)

\* the accelerometer listener: processMotionData(acceleration,
\* currentState.speed)
processMotionData(acceleration) ==
  LET accelerations == addToBuffer(accelerationBuffer, acceleration)
      speeds == addToBuffer(speedBuffer, speed)
      moving == isCurrentlyMoving(accelerations, speeds)
      class == IF moving THEN "above" ELSE "below"
  IN /\ accelerationBuffer' = accelerations
     /\ speedBuffer' = speeds
     /\ speed' = averageOf(speeds)
     /\ runKind' = class
     /\ runMs' = IF runKind = class THEN runMs ELSE 0
     /\ IF isMoving /\ ~moving
        THEN IF pendingStateChange # "stopped"
             THEN /\ pendingStateChange' = "stopped"
                  /\ movementConfirmationTimer' = None
                  /\ stopConfirmationTimer' = Some(STOP_CONFIRMATION_TIME)
                  /\ leakedTimers' = leakedTimers
                       \cup Armed("stopped", stopConfirmationTimer)
             ELSE UNCHANGED <<pendingStateChange, stopConfirmationTimer,
                              movementConfirmationTimer, leakedTimers>>
        ELSE IF ~isMoving /\ moving
        THEN IF pendingStateChange # "moving"
             THEN /\ pendingStateChange' = "moving"
                  /\ stopConfirmationTimer' = None
                  /\ movementConfirmationTimer' =
                       Some(MOVEMENT_CONFIRMATION_TIME)
                  /\ leakedTimers' = leakedTimers
                       \cup Armed("moving", movementConfirmationTimer)
             ELSE UNCHANGED <<pendingStateChange, stopConfirmationTimer,
                              movementConfirmationTimer, leakedTimers>>
        ELSE IF isMoving /\ moving
        THEN /\ stopConfirmationTimer' = None
             /\ pendingStateChange' = "null"
             /\ UNCHANGED <<movementConfirmationTimer, leakedTimers>>
        ELSE /\ movementConfirmationTimer' = None
             /\ pendingStateChange' = "null"
             /\ UNCHANGED <<stopConfirmationTimer, leakedTimers>>

\* a reading of the accelerometer subscription
accelerometerSample(acceleration) ==
  /\ accelerometerSubscription
  /\ samples < MaxSamples
  /\ samples' = samples + 1
  /\ processMotionData(acceleration)
  /\ UNCHANGED <<isRunning, motionCallback, isMoving,
                 accelerometerSubscription, locationSubscription,
                 mobileVars, backendVars>>

\* a position of the location watch: currentState.speed = coords.speed || 0
locationUpdate(s) ==
  /\ locationSubscription
  /\ speed' = Frac(s, 1)
  /\ UNCHANGED <<isRunning, motionCallback, isMoving,
                 accelerometerSubscription, locationSubscription,
                 accelerationBuffer, speedBuffer, pendingStateChange,
                 stopConfirmationTimer, movementConfirmationTimer,
                 leakedTimers, runKind, runMs, samples, mobileVars, backendVars>>

\* the callback of a confirmation timer of the given kind
\* notifyStateChange reaching the callback of a classifier run, which
\* records the call
observerCallback(m) ==
  IF motionCallback = "observer"
  THEN /\ observedCalls' = 1 - observedCalls
       /\ observedMoving' = m
  ELSE UNCHANGED observerVars

\* the timer callback without its call of notifyStateChange
confirmationCallbackSilent(kind) ==
  IF pendingStateChange = kind
  THEN /\ isMoving' = (kind = "moving")
       /\ pendingStateChange' = "null"
       /\ UNCHANGED <<tasks, observerVars>>
  ELSE UNCHANGED <<isMoving, pendingStateChange, tasks, observerVars>>

confirmationCallback(kind) ==
  IF pendingStateChange = kind
  THEN /\ isMoving' = (kind = "moving")
       /\ pendingStateChange' = "null"
       /\ CanNotify(kind = "moving", tasks)
       /\ tasks' = notifyStateChange(kind = "moving", tasks)
       /\ observerCallback(kind = "moving")
  ELSE UNCHANGED <<isMoving, pendingStateChange, tasks, observerVars>>

stopConfirmationTimerFires ==
  /\ stopConfirmationTimer = Some(0)
  /\ stopConfirmationTimer' = None
  /\ confirmationCallback("stopped")
  /\ UNCHANGED <<isRunning, motionCallback, accelerometerSubscription,
                 locationSubscription, speed, accelerationBuffer,
                 speedBuffer, movementConfirmationTimer, leakedTimers,
                 runKind, runMs, samples, taskLimit, weeklyBefore, deviceVars, invoices, backendVars,
                 now, encryptionKey, db, stopEvents, weeklyDemurrage,
                 settings, nextId, isTracking, currentStopEvent,
                 stateCallback, updateInterval, intervals, pendingReason,
                 backgroundTracking>>

movementConfirmationTimerFires ==
  /\ movementConfirmationTimer = Some(0)
  /\ movementConfirmationTimer' = None
  /\ confirmationCallback("moving")
  /\ UNCHANGED <<isRunning, motionCallback, accelerometerSubscription,
                 locationSubscription, speed, accelerationBuffer,
                 speedBuffer, stopConfirmationTimer, leakedTimers,
                 runKind, runMs, samples, taskLimit, weeklyBefore, deviceVars, invoices, backendVars,
                 now, encryptionKey, db, stopEvents, weeklyDemurrage,
                 settings, nextId, isTracking, currentStopEvent,
                 stateCallback, updateInterval, intervals, pendingReason,
                 backgroundTracking>>

\* a timer whose handle was overwritten fires: it runs the same callback
leakedTimerFires(tm) ==
  /\ tm \in leakedTimers
  /\ tm.remaining = 0
  /\ leakedTimers' = leakedTimers \ {tm}
  /\ confirmationCallback(tm.kind)
  /\ UNCHANGED <<isRunning, motionCallback, accelerometerSubscription,
                 locationSubscription, speed, accelerationBuffer,
                 speedBuffer, stopConfirmationTimer,
                 movementConfirmationTimer, runKind, runMs, samples, taskLimit, weeklyBefore, deviceVars, invoices, backendVars,
                 now, encryptionKey, db, stopEvents, weeklyDemurrage,
                 settings, nextId, isTracking, currentStopEvent,
                 stateCallback, updateInterval, intervals, pendingReason,
                 backgroundTracking>>

\* MotionTickMs milliseconds pass; a due timer fires before more time passes
MotionTick ==
  /\ stopConfirmationTimer # Some(0)
  /\ movementConfirmationTimer # Some(0)
  /\ \A tm \in leakedTimers : tm.remaining # 0
  /\ stopConfirmationTimer' =
       IF stopConfirmationTimer = None THEN None
       ELSE Some(Elapse(Val(stopConfirmationTimer)))
  /\ movementConfirmationTimer' =
       IF movementConfirmationTimer = None THEN None
       ELSE Some(Elapse(Val(movementConfirmationTimer)))
  /\ leakedTimers' = {[tm EXCEPT !.remaining = Elapse(tm.remaining)] :
                        tm \in leakedTimers}
  /\ runMs' = IF runKind = "none" THEN 0
              ELSE IF runMs + MotionTickMs > STOP_CONFIRMATION_TIME
              THEN STOP_CONFIRMATION_TIME
              ELSE runMs + MotionTickMs
  /\ UNCHANGED <<isRunning, motionCallback, isMoving,
                 accelerometerSubscription, locationSubscription, speed,
                 accelerationBuffer, speedBuffer, pendingStateChange,
                 runKind, samples, mobileVars, backendVars>>

\* what stopMotionDetection assigns
stopMotionDetection ==
  /\ accelerometerSubscription' = FALSE
  /\ locationSubscription' = FALSE
  /\ stopConfirmationTimer' = None
  /\ movementConfirmationTimer' = None
  /\ motionCallback' = NoCallback
  /\ isRunning' = FALSE
  /\ pendingStateChange' = "null"
  /\ accelerationBuffer' = <<>>
  /\ speedBuffer' = <<>>
  /\ runKind' = "none"
  /\ runMs' = 0
  /\ UNCHANGED <<isMoving, speed, leakedTimers, samples>>

\* a client other than the tracking coordinator stops the detection
stopMotionDetectionCall ==
  /\ stopMotionDetection
  /\ UNCHANGED <<mobileVars, backendVars>>

\* such a client calls startMotionDetection(callback), which runs up to its
\* await Accelerometer.isAvailableAsync (it returns at once when running)
startMotionDetection ==
  /\ ~isRunning
  /\ HasFree(tasks)
  /\ motionCallback' = "observer"
  /\ tasks' = Add(tasks, NewTask("startMotionDetection", "smd_available"))
  /\ UNCHANGED <<isRunning, isMoving, classifierVars, runVars, invoices, backendVars,
                 now, encryptionKey, db, stopEvents, weeklyDemurrage,
                 settings, nextId, isTracking, currentStopEvent,
                 stateCallback, updateInterval, intervals, pendingReason,
                 backgroundTracking>>

\* forceCheckMotionState with the foreground permission granted: after its
\* two awaits it replaces currentState by the state of one GPS reading
forceCheckMotionState(s) ==
  /\ isMoving' = (s > SPEED_THRESHOLD)
  /\ speed' = Frac(s, 1)
  /\ UNCHANGED <<isRunning, motionCallback, accelerometerSubscription,
                 locationSubscription, accelerationBuffer, speedBuffer,
                 pendingStateChange, stopConfirmationTimer,
                 movementConfirmationTimer, leakedTimers, runKind, runMs,
                 samples, mobileVars, backendVars>>

\* ------------------------------------------------------------ tracking.ts
\* the code after "await endStopEvent()" in its caller
AfterEndStopEvent(tk) ==
  /\ tasks' = Finish(tk)
  /\ IF tk.kind = "stopTracking"
     THEN isTracking' = FALSE /\ stateCallback' = FALSE
     ELSE UNCHANGED <<isTracking, stateCallback>>

\* startStopEvent, resumed after getCurrentLocation and getSettings (awaited
\* back to back, neither result is used): builds the event and calls
\* saveStopEvent
startStopEvent_settings(tk) ==
  /\ At(tk, "sse_settings")
  /\ nextId <= MaxEvents
  /\ LET ev == NewStopEvent(nextId, getCurrentTimestamp, pendingReason)
     IN /\ currentStopEvent' = Some(ev)
        /\ stopEvents' = saveStopEvent(stopEvents, ev)
  /\ nextId' = nextId + 1
  /\ weeklyBefore' = (nextId :> TotalsOf(weeklyDemurrage, getWeekStartISO(now)))
                      @@ weeklyBefore
  /\ tasks' = Goto(tk, "sse_save")
  /\ UNCHANGED <<taskLimit, observerVars, deviceVars, invoices, backendVars, classifierVars, now, encryptionKey, db, weeklyDemurrage, settings,
                 isTracking, stateCallback, updateInterval, intervals,
                 pendingReason, backgroundTracking, motionVars>>

\* resumed after saveStopEvent: calls getOrCreateWeeklyDemurrage(), after
\* which it only notifies and returns
startStopEvent_save(tk) ==
  /\ At(tk, "sse_save")
  /\ weeklyDemurrage' = getOrCreateWeeklyDemurrage(weeklyDemurrage,
                                                   getWeekStartISO(now))
  /\ tasks' = Finish(tk)
  /\ UNCHANGED <<runVars, invoices, backendVars, classifierVars, now, encryptionKey, db, stopEvents, settings, nextId,
                 isTracking, currentStopEvent, stateCallback, updateInterval,
                 intervals, pendingReason, backgroundTracking,
                 motionVars>>

\* the event with the fields endStopEvent assigns
Closed(ev, t, s) ==
  [ev EXCEPT !.endTime = t,
             !.durationMinutes = calculateDurationMinutes(ev.startTime, t),
             !.isDemurrage =
                isDemurrageEvent(calculateDurationMinutes(ev.startTime, t),
                                 thresholdMinutesOf(s))]

\* the event with the fields the periodic refresh assigns
Refreshed(ev, d, s) ==
  [ev EXCEPT !.durationMinutes = d,
             !.isDemurrage = isDemurrageEvent(d, thresholdMinutesOf(s))]

\* endStopEvent, resumed after getCurrentLocation and getSettings (awaited
\* back to back): closes currentStopEvent and calls
\* updateStopEvent; a null currentStopEvent throws into the catch
endStopEvent_settings(tk) ==
  /\ At(tk, "ese_settings")
  /\ IF currentStopEvent = None
     THEN /\ AfterEndStopEvent(tk)
          /\ UNCHANGED <<currentStopEvent, stopEvents>>
     ELSE LET ev == Closed(Val(currentStopEvent), getCurrentTimestamp,
                           getSettings(settings))
          IN /\ currentStopEvent' = Some(ev)
             /\ stopEvents' = updateStopEvent(stopEvents, ev)
             /\ tasks' = Goto(tk, "ese_update")
             /\ UNCHANGED <<isTracking, stateCallback>>
  /\ UNCHANGED <<runVars, invoices, backendVars, classifierVars, now, encryptionKey, db, weeklyDemurrage, settings, nextId,
                 updateInterval, intervals, pendingReason, backgroundTracking, motionVars>>

\* the task after it called recalculateWeeklyDemurrage(week), which first
\* reads the week's demurrage rows
RecalcCall(tk, week) ==
  Become(tk, [tk EXCEPT
                !.pc = "rwd_events",
                !.week = week,
                !.total = SumDuration(stopEvents,
                            getDemurrageEventsByWeek(stopEvents, week)),
                !.count = Cardinality(
                            getDemurrageEventsByWeek(stopEvents, week))])

\* resumed after updateStopEvent: recalculates the week of a demurrage event,
\* otherwise clears currentStopEvent and returns
endStopEvent_update(tk) ==
  /\ At(tk, "ese_update")
  /\ IF currentStopEvent = None
     THEN AfterEndStopEvent(tk) /\ UNCHANGED currentStopEvent
     ELSE IF Val(currentStopEvent).isDemurrage
     THEN /\ tasks' = RecalcCall(tk, Val(currentStopEvent).weekStartDate)
          /\ UNCHANGED <<currentStopEvent, isTracking, stateCallback>>
     ELSE /\ currentStopEvent' = None
          /\ AfterEndStopEvent(tk)
  /\ UNCHANGED <<runVars, invoices, backendVars, classifierVars, now, encryptionKey, db, stopEvents, weeklyDemurrage,
                 settings, nextId, updateInterval, intervals, pendingReason,
                 backgroundTracking, motionVars>>

\* recalculateWeeklyDemurrage, resumed after getDemurrageEventsByWeek:
\* calls updateWeeklyDemurrage with the totals it summed
recalculateWeeklyDemurrage_events(tk) ==
  /\ At(tk, "rwd_events")
  /\ weeklyDemurrage' = updateWeeklyDemurrage(weeklyDemurrage, tk.week,
                                              tk.total, tk.count)
  /\ tasks' = Goto(tk, "rwd_update")
  /\ UNCHANGED <<runVars, invoices, backendVars, classifierVars, now, encryptionKey, db, stopEvents, settings, nextId,
                 isTracking, currentStopEvent, stateCallback, updateInterval,
                 intervals, pendingReason, backgroundTracking,
                 motionVars>>

\* resumed after updateWeeklyDemurrage: calls getOrCreateWeeklyDemurrage(week)
recalculateWeeklyDemurrage_update(tk) ==
  /\ At(tk, "rwd_update")
  /\ weeklyDemurrage' = getOrCreateWeeklyDemurrage(weeklyDemurrage,
                                                   tk.week)
  /\ tasks' = Goto(tk, "rwd_get")
  /\ UNCHANGED <<runVars, invoices, backendVars, classifierVars, now, encryptionKey, db, stopEvents, settings, nextId,
                 isTracking, currentStopEvent, stateCallback, updateInterval,
                 intervals, pendingReason, backgroundTracking,
                 motionVars>>

\* resumed after getOrCreateWeeklyDemurrage: returns into the caller.
\* endStopEvent clears currentStopEvent; the refresh and the background
\* handler change no state afterwards
recalculateWeeklyDemurrage_get(tk) ==
  /\ At(tk, "rwd_get")
  /\ IF tk.kind \in {"handleMotionChange", "stopTracking"}
     THEN /\ currentStopEvent' = None
          /\ AfterEndStopEvent(tk)
     ELSE /\ tasks' = Finish(tk)
          /\ UNCHANGED <<currentStopEvent, isTracking, stateCallback>>
  /\ UNCHANGED <<runVars, invoices, backendVars, classifierVars, now, encryptionKey, db, stopEvents, weeklyDemurrage,
                 settings, nextId, updateInterval, intervals, pendingReason,
                 backgroundTracking, motionVars>>

\* a refresh interval fires: updateCurrentStopDuration runs up to its
\* await getSettings (it returns at once when there is no current event)
updateCurrentStopDuration ==
  /\ intervals > 0
  /\ currentStopEvent # None
  /\ HasFree(tasks)
  /\ tasks' = Add(tasks,
       [NewTask("updateCurrentStopDuration", "ucd_settings") EXCEPT
          !.d = calculateDurationMinutes(Val(currentStopEvent).startTime,
                                         getCurrentTimestamp),
          !.settings = getSettings(settings)])
  /\ UNCHANGED <<runVars, invoices, backendVars, classifierVars, now, encryptionKey, db, stopEvents, weeklyDemurrage,
                 settings, nextId, isTracking, currentStopEvent,
                 stateCallback, updateInterval, intervals, pendingReason,
                 backgroundTracking, motionVars>>

\* resumed after getSettings: stores duration and flag in currentStopEvent
\* and calls updateStopEvent
updateCurrentStopDuration_settings(tk) ==
  /\ At(tk, "ucd_settings")
  /\ IF currentStopEvent = None
     THEN /\ tasks' = Finish(tk)
          /\ UNCHANGED <<currentStopEvent, stopEvents>>
     ELSE LET ev == Refreshed(Val(currentStopEvent), tk.d,
                              tk.settings)
          IN /\ currentStopEvent' = Some(ev)
             /\ stopEvents' = updateStopEvent(stopEvents, ev)
             /\ tasks' = Goto(tk, "ucd_update")
  /\ UNCHANGED <<runVars, invoices, backendVars, classifierVars, now, encryptionKey, db, weeklyDemurrage, settings, nextId,
                 isTracking, stateCallback, updateInterval, intervals,
                 pendingReason, backgroundTracking, motionVars>>

\* resumed after updateStopEvent: recalculates the week when flagged
updateCurrentStopDuration_update(tk) ==
  /\ At(tk, "ucd_update")
  /\ IF currentStopEvent # None /\ Val(currentStopEvent).isDemurrage
     THEN tasks' = RecalcCall(tk, Val(currentStopEvent).weekStartDate)
     ELSE tasks' = Finish(tk)
  /\ UNCHANGED <<runVars, invoices, backendVars, classifierVars, now, encryptionKey, db, stopEvents, weeklyDemurrage,
                 settings, nextId, isTracking, currentStopEvent,
                 stateCallback, updateInterval, intervals, pendingReason,
                 backgroundTracking, motionVars>>

\* startTracking up to its await getCurrentStopEvent()
startTracking(reason) ==
  /\ db
  /\ ~isTracking
  /\ stateCallback' = TRUE
  /\ pendingReason' = reason
  /\ HasFree(tasks)
  /\ \E r \in getCurrentStopEvent(stopEvents, now) :
       tasks' = Add(tasks, [NewTask("startTracking", "st_getCurrent")
                            EXCEPT !.ev = r])
  /\ UNCHANGED <<runVars, invoices, backendVars, classifierVars, now, encryptionKey, db, stopEvents, weeklyDemurrage,
                 settings, nextId, isTracking, currentStopEvent,
                 updateInterval, intervals, backgroundTracking,
                 motionVars>>

\* startTracking after "await startMotionDetection(...)" returned true:
\* schedules the refresh interval and marks tracking started. The awaited
\* promise is already resolved, so this runs before any other callback
startTracking_started ==
  /\ intervals < MaxIntervals
  /\ updateInterval' = TRUE
  /\ intervals' = intervals + 1
  /\ isTracking' = TRUE

\* resumed after getCurrentStopEvent: adopts the result and calls
\* startMotionDetection, which returns true at once when detection is running
\* and otherwise registers the callback and awaits the accelerometer check
startTracking_getCurrent(tk) ==
  /\ At(tk, "st_getCurrent")
  /\ currentStopEvent' = tk.ev
  /\ IF isRunning
     THEN /\ startTracking_started
          /\ tasks' = Finish(tk)
          /\ UNCHANGED motionCallback
     ELSE /\ tasks' = Goto(tk, "smd_available")
          /\ motionCallback' = "handleMotionChange"
          /\ UNCHANGED <<updateInterval, intervals, isTracking>>
  /\ UNCHANGED <<runVars, invoices, backendVars, classifierVars, now, encryptionKey, db, stopEvents, weeklyDemurrage,
                 settings, nextId, stateCallback, pendingReason,
                 backgroundTracking, isRunning, isMoving>>

\* startMotionDetection, resumed after Accelerometer.isAvailableAsync:
\* subscribes and awaits the location permission
startMotionDetection_available(tk) ==
  /\ At(tk, "smd_available")
  /\ accelerometerSubscription' = TRUE
  /\ tasks' = Goto(tk, "smd_permission")
  /\ UNCHANGED <<runVars, invoices, backendVars, locationSubscription, speed,
                 accelerationBuffer, speedBuffer, pendingStateChange,
                 stopConfirmationTimer, movementConfirmationTimer,
                 leakedTimers, runKind, runMs, samples, now, encryptionKey, db, stopEvents, weeklyDemurrage,
                 settings, nextId, isTracking, currentStopEvent,
                 stateCallback, updateInterval, intervals, pendingReason,
                 backgroundTracking, motionVars>>

\* resumed after the permission request and the position watch: marks
\* detection running, notifies the registered callback of the current state
\* and returns true into its caller
startMotionDetection_permission(tk) ==
  /\ At(tk, "smd_permission")
  /\ locationSubscription' = TRUE
  /\ isRunning' = TRUE
  /\ tasks' = notifyStateChange(isMoving, Finish(tk))
  /\ observerCallback(isMoving)
  /\ IF tk.kind = "startTracking"
     THEN startTracking_started
     ELSE UNCHANGED <<updateInterval, intervals, isTracking>>
  /\ UNCHANGED <<taskLimit, weeklyBefore, deviceVars, invoices, backendVars, accelerometerSubscription, speed,
                 accelerationBuffer, speedBuffer, pendingStateChange,
                 stopConfirmationTimer, movementConfirmationTimer,
                 leakedTimers, runKind, runMs, samples,
                 now, encryptionKey, db, stopEvents, weeklyDemurrage,
                 settings, nextId, currentStopEvent, stateCallback,
                 pendingReason, backgroundTracking, motionCallback, isMoving>>

\* stopTracking up to its await endStopEvent(), or to its end when there is
\* no current stop event; stopMotionDetection drops the motion callback
stopTracking ==
  /\ db
  /\ stopMotionDetection
  /\ updateInterval' = FALSE
  /\ intervals' = IF updateInterval THEN intervals - 1 ELSE intervals
  /\ IF currentStopEvent # None
     THEN /\ HasFree(tasks)
          /\ tasks' = Add(tasks, NewTask("stopTracking", "ese_settings"))
          /\ UNCHANGED <<isTracking, stateCallback>>
     ELSE /\ isTracking' = FALSE
          /\ stateCallback' = FALSE
          /\ UNCHANGED tasks
  /\ UNCHANGED <<runVars, invoices, backendVars, now, encryptionKey, db, stopEvents,
                 weeklyDemurrage, settings, nextId, currentStopEvent,
                 pendingReason, backgroundTracking>>

\* a confirmation timer of the motion module flips the state and notifies
\* the registered callback: handleMotionChange runs up to its first await
motionNotify ==
  /\ motionCallback = "handleMotionChange"
  /\ isMoving' = ~isMoving
  /\ CanNotify(~isMoving, tasks)
  /\ tasks' = notifyStateChange(~isMoving, tasks)
  /\ UNCHANGED <<runVars, invoices, backendVars, classifierVars, now, encryptionKey, db, stopEvents, weeklyDemurrage,
                 settings, nextId, isTracking, currentStopEvent,
                 stateCallback, updateInterval, intervals, pendingReason,
                 backgroundTracking, isRunning,
                 motionCallback>>

\* ---------------------------------------------------------- background.ts
startBackgroundTracking ==
  /\ db
  /\ isTracking
  /\ ~backgroundTracking
  /\ backgroundTracking' = TRUE
  /\ UNCHANGED <<runVars, invoices, backendVars, classifierVars, now, encryptionKey, db, stopEvents, weeklyDemurrage,
                 settings, nextId, isTracking, currentStopEvent,
                 stateCallback, updateInterval, intervals, pendingReason,
                 tasks, motionVars>>

stopBackgroundTracking ==
  /\ backgroundTracking
  /\ ~isTracking
  /\ backgroundTracking' = FALSE
  /\ UNCHANGED <<runVars, invoices, backendVars, classifierVars, now, encryptionKey, db, stopEvents, weeklyDemurrage,
                 settings, nextId, isTracking, currentStopEvent,
                 stateCallback, updateInterval, intervals, pendingReason,
                 tasks, motionVars>>

\* the background location task delivers a location whose speed classifies
\* as moving (m) or not: handleBackgroundMotionUpdate runs up to its
\* await getCurrentStopEvent()
handleBackgroundMotionUpdate(m) ==
  /\ backgroundTracking
  /\ HasFree(tasks)
  /\ \E r \in getCurrentStopEvent(stopEvents, now) :
       tasks' = Add(tasks, [NewTask("background", "bg_getCurrent")
                            EXCEPT !.isMoving = m, !.ev = r])
  /\ UNCHANGED <<runVars, invoices, backendVars, classifierVars, now, encryptionKey, db, stopEvents, weeklyDemurrage,
                 settings, nextId, isTracking, currentStopEvent,
                 stateCallback, updateInterval, intervals, pendingReason,
                 backgroundTracking, motionVars>>

\* resumed after getCurrentStopEvent: reads the clock and branches
handleBackgroundMotionUpdate_getCurrent(tk) ==
  /\ At(tk, "bg_getCurrent")
  /\ IF ~tk.isMoving /\ tk.ev = None
     THEN /\ nextId <= MaxEvents
          /\ stopEvents' = saveStopEvent(stopEvents,
               NewStopEvent(nextId, getCurrentTimestamp, NoReason))
          /\ nextId' = nextId + 1
          /\ weeklyBefore' =
               (nextId :> TotalsOf(weeklyDemurrage, getWeekStartISO(now)))
               @@ weeklyBefore
          /\ tasks' = Goto(tk, "bg_save")
     ELSE IF tk.ev # None
     THEN /\ tasks' = Become(tk, [tk EXCEPT
                         !.pc = IF tk.isMoving THEN "bg_end_settings"
                                ELSE "bg_upd_settings",
                         !.t = getCurrentTimestamp,
                         !.settings = getSettings(settings)])
          /\ UNCHANGED <<stopEvents, nextId, weeklyBefore>>
     ELSE /\ tasks' = Finish(tk)
          /\ UNCHANGED <<stopEvents, nextId, weeklyBefore>>
  /\ UNCHANGED <<taskLimit, observerVars, deviceVars, invoices, backendVars, classifierVars, now, encryptionKey, db, weeklyDemurrage, settings,
                 isTracking, currentStopEvent, stateCallback, updateInterval,
                 intervals, pendingReason, backgroundTracking,
                 motionVars>>

\* resumed after saveStopEvent
handleBackgroundMotionUpdate_save(tk) ==
  /\ At(tk, "bg_save")
  /\ tasks' = Finish(tk)
  /\ UNCHANGED <<runVars, invoices, backendVars, classifierVars, now, encryptionKey, db, stopEvents, weeklyDemurrage,
                 settings, nextId, isTracking, currentStopEvent,
                 stateCallback, updateInterval, intervals, pendingReason,
                 backgroundTracking, motionVars>>

\* "started moving", resumed after getSettings: closes its copy of the
\* event and calls updateStopEvent
handleBackgroundMotionUpdate_endSettings(tk) ==
  /\ At(tk, "bg_end_settings")
  /\ LET ev == Closed(Val(tk.ev), tk.t, tk.settings)
     IN /\ stopEvents' = updateStopEvent(stopEvents, ev)
        /\ tasks' = Become(tk, [tk EXCEPT !.pc = "bg_end_update",
                                             !.ev = Some(ev)])
  /\ UNCHANGED <<runVars, invoices, backendVars, classifierVars, now, encryptionKey, db, weeklyDemurrage, settings, nextId,
                 isTracking, currentStopEvent, stateCallback, updateInterval,
                 intervals, pendingReason, backgroundTracking,
                 motionVars>>

\* resumed after updateStopEvent
handleBackgroundMotionUpdate_endUpdate(tk) ==
  /\ At(tk, "bg_end_update")
  /\ IF Val(tk.ev).isDemurrage
     THEN tasks' = RecalcCall(tk, Val(tk.ev).weekStartDate)
     ELSE tasks' = Finish(tk)
  /\ UNCHANGED <<runVars, invoices, backendVars, classifierVars, now, encryptionKey, db, stopEvents, weeklyDemurrage,
                 settings, nextId, isTracking, currentStopEvent,
                 stateCallback, updateInterval, intervals, pendingReason,
                 backgroundTracking, motionVars>>

\* "still stopped", resumed after getSettings: refreshes its copy of the
\* event and calls updateStopEvent
handleBackgroundMotionUpdate_updSettings(tk) ==
  /\ At(tk, "bg_upd_settings")
  /\ LET ev == Refreshed(Val(tk.ev),
                         calculateDurationMinutes(Val(tk.ev).startTime,
                                                  tk.t),
                         tk.settings)
     IN /\ stopEvents' = updateStopEvent(stopEvents, ev)
        /\ tasks' = Become(tk, [tk EXCEPT !.pc = "bg_upd_update",
                                             !.ev = Some(ev)])
  /\ UNCHANGED <<runVars, invoices, backendVars, classifierVars, now, encryptionKey, db, weeklyDemurrage, settings, nextId,
                 isTracking, currentStopEvent, stateCallback, updateInterval,
                 intervals, pendingReason, backgroundTracking,
                 motionVars>>

\* resumed after updateStopEvent
handleBackgroundMotionUpdate_updUpdate(tk) ==
  /\ At(tk, "bg_upd_update")
  /\ IF Val(tk.ev).isDemurrage
     THEN tasks' = RecalcCall(tk, Val(tk.ev).weekStartDate)
     ELSE tasks' = Finish(tk)
  /\ UNCHANGED <<runVars, invoices, backendVars, classifierVars, now, encryptionKey, db, stopEvents, weeklyDemurrage,
                 settings, nextId, isTracking, currentStopEvent,
                 stateCallback, updateInterval, intervals, pendingReason,
                 backgroundTracking, motionVars>>

\* ------------------------------------------------ mobile client behaviour
Next ==
  \/ initialize
  \/ \E T \in 0..MaxThreshold : saveSettings(T)
  \/ Tick
  \/ \E reason \in Reasons \cup {NoReason} : startTracking(reason)
  \/ \E tk \in InFlight : startTracking_getCurrent(tk)
  \/ \E tk \in InFlight : startMotionDetection_available(tk)
  \/ \E tk \in InFlight : startMotionDetection_permission(tk)
  \/ stopTracking
  \/ motionNotify
  \/ \E tk \in InFlight : startStopEvent_settings(tk)
  \/ \E tk \in InFlight : startStopEvent_save(tk)
  \/ \E tk \in InFlight : endStopEvent_settings(tk)
  \/ \E tk \in InFlight : endStopEvent_update(tk)
  \/ \E tk \in InFlight : recalculateWeeklyDemurrage_events(tk)
  \/ \E tk \in InFlight : recalculateWeeklyDemurrage_update(tk)
  \/ \E tk \in InFlight : recalculateWeeklyDemurrage_get(tk)
  \/ updateCurrentStopDuration
  \/ \E tk \in InFlight : updateCurrentStopDuration_settings(tk)
  \/ \E tk \in InFlight : updateCurrentStopDuration_update(tk)
  \/ startBackgroundTracking
  \/ stopBackgroundTracking
  \/ \E m \in BOOLEAN : handleBackgroundMotionUpdate(m)
  \/ \E tk \in InFlight : handleBackgroundMotionUpdate_getCurrent(tk)
  \/ \E tk \in InFlight : handleBackgroundMotionUpdate_save(tk)
  \/ \E tk \in InFlight : handleBackgroundMotionUpdate_endSettings(tk)
  \/ \E tk \in InFlight : handleBackgroundMotionUpdate_endUpdate(tk)
  \/ \E tk \in InFlight : handleBackgroundMotionUpdate_updSettings(tk)
  \/ \E tk \in InFlight : handleBackgroundMotionUpdate_updUpdate(tk)

Spec == Init /\ [][Next]_vars

\* ------------------------------------------------------------- app start
\* The start of the app followed step by step over several runs of the
\* process: initializeEncryption, then initializeDatabase with its awaits.
\* The settings row and the key storage outlive a run; the key storage may
\* be emptied between two runs.
Keys == 1..MaxKeys

DEFAULT_SETTINGS == [demurrageThresholdMinutes |-> DEFAULT_SETTINGS_THRESHOLD]

\* decrypt and JSON.parse return on data that was encrypted with the key in
\* use; on any other data one of them throws
Readable(c) == c.key # 0 /\ c.key = encryptionKey

\* how a call of getSettings ends: "null", "record" or "throws"
getSettingsOutcome(s) ==
  IF s = None THEN "null"
  ELSE IF Readable(Val(s)) THEN "record"
  ELSE "throws"

\* initializeDatabase with no handler around its getSettings
settingsStepUncaught(r) ==
  IF r = "throws" THEN "fail"
  ELSE IF r = "null" THEN "default"
  ELSE "keep"

\* what initializeDatabase does on the outcome r of its getSettings: "keep"
\* the row, store the "default", "reset" in the catch branch, or "fail"
settingsStep(r) ==
  IF r = "throws" THEN "reset"
  ELSE IF r = "null" THEN "default"
  ELSE "keep"

\* a key that is found in the key storage is used, otherwise a new random
\* key is generated and stored: it is not the key of the stored settings
initializeEncryption ==
  /\ encryptionKey = 0
  /\ initOutcome = "none"
  /\ IF keyStore # 0
     THEN encryptionKey' = keyStore /\ UNCHANGED keyStore
     ELSE \E k \in Keys :
            /\ IF settings = None THEN TRUE ELSE Val(settings).key # k
            /\ encryptionKey' = k
            /\ keyStore' = k
  /\ UNCHANGED <<taskLimit, observerVars, weeklyBefore, isWebPlatform, initOutcome,
                 settingsRead, invoices, backendVars, classifierVars, now, db,
                 stopEvents, weeklyDemurrage, settings, nextId, isTracking,
                 currentStopEvent, stateCallback, updateInterval, intervals,
                 pendingReason, backgroundTracking, tasks, motionVars>>

\* initializeDatabase up to its await getSettings()
initializeDatabase ==
  /\ encryptionKey # 0
  /\ ~db
  /\ initOutcome = "none"
  /\ HasFree(tasks)
  /\ db' = TRUE
  /\ initOutcome' = "pending"
  /\ tasks' = Add(tasks, NewTask("initializeDatabase", "init_getSettings"))
  /\ UNCHANGED <<taskLimit, observerVars, weeklyBefore, isWebPlatform, keyStore,
                 settingsRead, invoices, backendVars, classifierVars, now,
                 encryptionKey, stopEvents, weeklyDemurrage, settings,
                 nextId, isTracking, currentStopEvent, stateCallback,
                 updateInterval, intervals, pendingReason,
                 backgroundTracking, motionVars>>

\* resumed when getSettings has resolved or thrown
initializeDatabase_getSettings(tk) ==
  /\ At(tk, "init_getSettings")
  /\ settingsRead' = getSettingsOutcome(settings)
  /\ LET step == settingsStep(getSettingsOutcome(settings))
     IN CASE step = "keep" ->
               /\ tasks' = Finish(tk)
               /\ initOutcome' = "resolved"
               /\ UNCHANGED <<settings, stopEvents, weeklyDemurrage, invoices>>
          [] step = "default" ->
               /\ settings' = Some(encrypt(DEFAULT_SETTINGS))
               /\ tasks' = Goto(tk, "init_saved")
               /\ UNCHANGED <<initOutcome, stopEvents, weeklyDemurrage, invoices>>
          [] step = "reset" ->
               /\ settings' = Some(encrypt(DEFAULT_SETTINGS))
               /\ IF isWebPlatform
                  THEN /\ stopEvents' = <<>>
                       /\ weeklyDemurrage' = <<>>
                       /\ invoices' = {}
                  ELSE UNCHANGED <<stopEvents, weeklyDemurrage, invoices>>
               /\ tasks' = Goto(tk, "init_saved")
               /\ UNCHANGED initOutcome
          [] step = "fail" ->
               /\ tasks' = Finish(tk)
               /\ initOutcome' = "rejected"
               /\ UNCHANGED <<settings, stopEvents, weeklyDemurrage, invoices>>
  /\ UNCHANGED <<taskLimit, observerVars, weeklyBefore, isWebPlatform, keyStore,
                 backendVars, classifierVars, now, encryptionKey, db,
                 nextId, isTracking, currentStopEvent, stateCallback,
                 updateInterval, intervals, pendingReason,
                 backgroundTracking, motionVars>>

\* resumed after saveSettings(DEFAULT_SETTINGS): initializeDatabase resolves
initializeDatabase_saved(tk) ==
  /\ At(tk, "init_saved")
  /\ tasks' = Finish(tk)
  /\ initOutcome' = "resolved"
  /\ UNCHANGED <<taskLimit, observerVars, weeklyBefore, isWebPlatform, keyStore,
                 settingsRead, invoices, backendVars, classifierVars, now,
                 encryptionKey, db, stopEvents, weeklyDemurrage, settings,
                 nextId, isTracking, currentStopEvent, stateCallback,
                 updateInterval, intervals, pendingReason,
                 backgroundTracking, motionVars>>

\* the process ends: the module state is gone, the stored rows and the key
\* storage stay
closeApp ==
  /\ initOutcome \in {"resolved", "rejected"}
  /\ encryptionKey' = 0
  /\ db' = FALSE
  /\ initOutcome' = "none"
  /\ settingsRead' = "none"
  /\ tasks' = EmptyBag
  /\ UNCHANGED <<taskLimit, observerVars, weeklyBefore, isWebPlatform, keyStore,
                 invoices, backendVars, classifierVars, now, stopEvents,
                 weeklyDemurrage, settings, nextId, isTracking,
                 currentStopEvent, stateCallback, updateInterval, intervals,
                 pendingReason, backgroundTracking, motionVars>>

\* between two runs the key storage loses the key
keyStoreCleared ==
  /\ encryptionKey = 0
  /\ keyStore # 0
  /\ keyStore' = 0
  /\ UNCHANGED <<taskLimit, observerVars, weeklyBefore, isWebPlatform, initOutcome,
                 settingsRead, invoices, backendVars, classifierVars, now,
                 encryptionKey, db, stopEvents, weeklyDemurrage, settings,
                 nextId, isTracking, currentStopEvent, stateCallback,
                 updateInterval, intervals, pendingReason,
                 backgroundTracking, tasks, motionVars>>

InitStartup ==
  /\ InitTables
  /\ InitDeployment
  /\ roundsHalfToEven = FALSE
  /\ taskLimit = MaxTasks
  /\ isWebPlatform \in BOOLEAN
  /\ keyStore = 0
  /\ initOutcome = "none"
  /\ settingsRead = "none"

StartupNext ==
  \/ initializeEncryption
  \/ initializeDatabase
  \/ \E tk \in InFlight : initializeDatabase_getSettings(tk)
  \/ \E tk \in InFlight : initializeDatabase_saved(tk)
  \/ \E T \in 0..MaxThreshold : initOutcome = "resolved" /\ saveSettings(T)
  \/ closeApp
  \/ keyStoreCleared

SpecStartup == InitStartup /\ [][StartupNext]_vars

\* ------------------------------------------- coordinator, storage failing
\* endStopEvent, resumed after getCurrentLocation and getSettings, when the
\* updateStopEvent it calls is going to reject: the fields of
\* currentStopEvent are assigned, no row is written
endStopEvent_settingsRejected(tk) ==
  /\ At(tk, "ese_settings")
  /\ currentStopEvent # None
  /\ currentStopEvent' = Some(Closed(Val(currentStopEvent),
                                     getCurrentTimestamp,
                                     getSettings(settings)))
  /\ tasks' = Become(tk, [tk EXCEPT !.pc = "ese_rejected",
                                    !.ev = currentStopEvent])
  /\ UNCHANGED <<runVars, invoices, backendVars, classifierVars, now, encryptionKey,
                 db, stopEvents, weeklyDemurrage, settings, nextId,
                 isTracking, stateCallback, updateInterval, intervals,
                 pendingReason, backgroundTracking, motionVars>>

\* the rejection arrives in the catch of endStopEvent, which logs it and
\* returns to the caller
endStopEvent_catch(tk) ==
  /\ At(tk, "ese_rejected")
  /\ AfterEndStopEvent(tk)
  /\ UNCHANGED <<runVars, invoices, backendVars, classifierVars, now, encryptionKey,
                 db, stopEvents, weeklyDemurrage, settings, nextId,
                 currentStopEvent, updateInterval, intervals, pendingReason,
                 backgroundTracking, motionVars>>

FailingNext ==
  \/ initialize
  \/ Tick
  \/ startTracking(NoReason)
  \/ \E tk \in InFlight : startTracking_getCurrent(tk)
  \/ \E tk \in InFlight : startMotionDetection_available(tk)
  \/ \E tk \in InFlight : startMotionDetection_permission(tk)
  \/ stopTracking
  \/ motionNotify
  \/ \E tk \in InFlight : startStopEvent_settings(tk)
  \/ \E tk \in InFlight : startStopEvent_save(tk)
  \/ \E tk \in InFlight : endStopEvent_settings(tk)
  \/ \E tk \in InFlight : endStopEvent_settingsRejected(tk)
  \/ \E tk \in InFlight : endStopEvent_catch(tk)
  \/ \E tk \in InFlight : endStopEvent_update(tk)
  \/ \E tk \in InFlight : recalculateWeeklyDemurrage_events(tk)
  \/ \E tk \in InFlight : recalculateWeeklyDemurrage_update(tk)
  \/ \E tk \in InFlight : recalculateWeeklyDemurrage_get(tk)

SpecFailing == Init /\ [][FailingNext]_vars

\* --------------------------------------- tracking coordinator on its own
\* The exported functions of tracking.ts called in any order within one
\* clock tick, with MaxOverlap invocations overlapping and a reason passed to
\* startTracking; the background task is not registered, the settings stay
\* as stored and no stop lasts long enough to be flagged.
InitCoordinator ==
  InitTables /\ InitDeployment /\ InitDevice /\ roundsHalfToEven = FALSE
    /\ taskLimit = MaxOverlap

CoordinatorNext ==
  \/ initialize
  \/ \E reason \in StopReasons \cup {NoReason} : startTracking(reason)
  \/ \E tk \in InFlight : startTracking_getCurrent(tk)
  \/ \E tk \in InFlight : startMotionDetection_available(tk)
  \/ \E tk \in InFlight : startMotionDetection_permission(tk)
  \/ stopTracking
  \/ motionNotify
  \/ \E tk \in InFlight : startStopEvent_settings(tk)
  \/ \E tk \in InFlight : startStopEvent_save(tk)
  \/ \E tk \in InFlight : endStopEvent_settings(tk)
  \/ \E tk \in InFlight : endStopEvent_update(tk)
  \/ updateCurrentStopDuration
  \/ \E tk \in InFlight : updateCurrentStopDuration_settings(tk)
  \/ \E tk \in InFlight : updateCurrentStopDuration_update(tk)

SpecCoordinator == InitCoordinator /\ [][CoordinatorNext]_vars

\* Every awaited call of the coordinator completes (location and storage
\* succeed), so a suspended invocation is resumed, and an interval that is
\* scheduled fires. The motion notifications and the calls of startTracking
\* and stopTracking come from outside and need not happen.
CoordinatorFairness ==
  /\ WF_vars(\E tk \in InFlight : startTracking_getCurrent(tk))
  /\ WF_vars(\E tk \in InFlight : startMotionDetection_available(tk))
  /\ WF_vars(\E tk \in InFlight : startMotionDetection_permission(tk))
  /\ WF_vars(\E tk \in InFlight : startStopEvent_settings(tk))
  /\ WF_vars(\E tk \in InFlight : startStopEvent_save(tk))
  /\ WF_vars(\E tk \in InFlight : endStopEvent_settings(tk))
  /\ WF_vars(\E tk \in InFlight : endStopEvent_update(tk))
  /\ WF_vars(updateCurrentStopDuration)
  /\ WF_vars(\E tk \in InFlight : updateCurrentStopDuration_settings(tk))
  /\ WF_vars(\E tk \in InFlight : updateCurrentStopDuration_update(tk))

SpecCoordinatorFair ==
  InitCoordinator /\ [][CoordinatorNext]_vars /\ CoordinatorFairness

\* ================================================================ backend
\* PostgreSQL tables behind the Express routes. Every query is one statement
\* that takes effect when it is issued; a request is suspended between its
\* statements, and no transaction spans two of them.
Users == 1..MaxUsers
Companies == 1..MaxCompanies
\* the company in the user's token
companyOf(u) == ((u - 1) % MaxCompanies) + 1

backendWeekStart(t) == (t \div BackendWeekTicks) * BackendWeekTicks

\* EXTRACT(EPOCH FROM (NOW() - start_time)) / 60 >= threshold
backendIsDemurrage(elapsed, thresholdMinutes) ==
  elapsed >= thresholdMinutes * BackendTicksPerMinute

\* the minutes stored in the INTEGER column duration_minutes: the quotient is
\* rounded to the nearest integer, an exact half as the database rounds it
backendDurationMinutes(elapsed) ==
  LET q == elapsed \div BackendTicksPerMinute
      r == elapsed % BackendTicksPerMinute
  IN IF 2 * r < BackendTicksPerMinute THEN q
     ELSE IF 2 * r > BackendTicksPerMinute THEN q + 1
     ELSE IF roundsHalfToEven /\ q % 2 = 0 THEN q
     ELSE q + 1

\* settings?.demurrageThresholdMinutes || 50 in POST /tracking/end
backendThresholdOf(c) ==
  IF companies[c].demurrage_threshold_minutes = 0 THEN DEFAULT_THRESHOLD
  ELSE companies[c].demurrage_threshold_minutes

\* rows "WHERE user_id = $1 AND end_time IS NULL ORDER BY start_time DESC
\* LIMIT 1" may return
backendGetActiveStopEvent(u) ==
  LET open == {id \in DOMAIN stop_events :
                 /\ stop_events[id].user_id = u
                 /\ stop_events[id].end_time = NoTime}
  IN IF open = {} THEN {None}
     ELSE {Some(id) : id \in {x \in open :
             \A o \in open :
               stop_events[o].start_time <= stop_events[x].start_time}}

\* getActiveSession finds a row "WHERE user_id = $1 AND ended_at IS NULL";
\* the route only tests that there is one
backendGetActiveSession(u) ==
  \E id \in DOMAIN user_sessions :
    /\ user_sessions[id].user_id = u
    /\ ~user_sessions[id].ended

backendGetDemurrageEventsByWeek(c, weekStartDate) ==
  {id \in DOMAIN stop_events :
     /\ stop_events[id].company_id = c
     /\ stop_events[id].is_demurrage
     /\ stop_events[id].start_time >= weekStartDate
     /\ stop_events[id].start_time < weekStartDate + BackendWeekTicks}

RECURSIVE backendSumDuration(_)
backendSumDuration(ids) ==
  IF ids = {} THEN 0
  ELSE LET id == CHOOSE x \in ids : TRUE
       IN stop_events[id].duration_minutes + backendSumDuration(ids \ {id})

IdleRequest == [kind |-> "idle", pc |-> "done", user |-> 0, event |-> None,
                threshold |-> 0, week |-> 0, found |-> FALSE,
                total |-> 0, count |-> 0]
NewRequest(kind, pc, u) ==
  [IdleRequest EXCEPT !.kind = kind, !.pc = pc, !.user = u]
Pending == BagToSet(requests)
CanAccept == BagCardinality(requests) < requestLimit
Accept(rq) == requests (+) SetToBag({rq})
Replace(rq, new) == (requests (-) SetToBag({rq})) (+) SetToBag({new})
Respond(rq) == requests (-) SetToBag({rq})
\* res.status(..).json(..) ends the request
Reply(rq, r) == requests' = Respond(rq) /\ response' = r
NoRequestInFlight == requests = EmptyBag

BackendTick ==
  /\ bnow < MaxBackendTime
  /\ bnow' = bnow + 1
  /\ UNCHANGED <<clientVars, accountVars, response, roundsHalfToEven, companies, user_sessions, stop_events, weekly_demurrage,
                 requests>>

\* PUT /company: stores the threshold it is given
updateCompany(c, T) ==
  /\ companies' = [companies EXCEPT ![c].demurrage_threshold_minutes = T]
  /\ response' = Success(200, {"data"})
  /\ UNCHANGED <<clientVars, accountVars, roundsHalfToEven, bnow, user_sessions, stop_events, weekly_demurrage,
                 requests>>

\* POST /auth/login with valid credentials, up to the await inside
\* createSession: its first statement ends the user's active sessions
postLogin(u) ==
  /\ CanAccept
  /\ Len(user_sessions) < sessionLimit
  /\ user_sessions' = [id \in DOMAIN user_sessions |->
       IF user_sessions[id].user_id = u
       THEN [user_sessions[id] EXCEPT !.ended = TRUE]
       ELSE user_sessions[id]]
  /\ requests' = Accept(NewRequest("login", "cs_end", u))
  /\ UNCHANGED <<clientVars, accountVars, response, roundsHalfToEven, bnow, companies, stop_events, weekly_demurrage>>

\* createSession, resumed after the UPDATE: inserts the new session
createSession_insert(rq) ==
  /\ rq.pc = "cs_end"
  /\ Len(user_sessions) < sessionLimit
  /\ user_sessions' = Append(user_sessions,
       [user_id |-> rq.user, ended |-> FALSE])
  /\ Reply(rq, Success(200, {"data"}))
  /\ UNCHANGED <<clientVars, accountVars, roundsHalfToEven, bnow, companies, stop_events, weekly_demurrage>>

\* POST /auth/logout: endSession(sessionId) of the session id in the body
postLogout(sessionId) ==
  /\ sessionId \in DOMAIN user_sessions
  /\ user_sessions' = [user_sessions EXCEPT ![sessionId].ended = TRUE]
  /\ response' = Success(200, {"message"})
  /\ UNCHANGED <<clientVars, accountVars, roundsHalfToEven, bnow, companies, stop_events, weekly_demurrage, requests>>

\* POST /tracking/start up to its await getActiveStopEvent
postTrackingStart(u) ==
  /\ CanAccept
  /\ \E r \in backendGetActiveStopEvent(u) :
       requests' = Accept([NewRequest("start", "start_active", u)
                           EXCEPT !.event = r])
  /\ UNCHANGED <<clientVars, accountVars, response, roundsHalfToEven, bnow, companies, user_sessions, stop_events,
                 weekly_demurrage>>

\* resumed after getActiveStopEvent: answers 400 when an event is open,
\* otherwise reads the active session
postTrackingStart_active(rq) ==
  /\ rq.pc = "start_active"
  /\ IF rq.event # None
     THEN Reply(rq, Failure(400, "Stop event already in progress"))
     ELSE /\ requests' = Replace(rq,
               [rq EXCEPT !.pc = "start_session",
                          !.found = backendGetActiveSession(rq.user)])
          /\ UNCHANGED response
  /\ UNCHANGED <<clientVars, accountVars, roundsHalfToEven, bnow, companies, user_sessions, stop_events,
                 weekly_demurrage>>

\* the route without its "No active session" answer
postTrackingStartAnySession(rq) ==
  /\ rq.pc = "start_session"
  /\ Len(stop_events) < MaxBackendEvents
  /\ stop_events' = Append(stop_events,
       [company_id |-> companyOf(rq.user), user_id |-> rq.user,
        start_time |-> bnow, end_time |-> NoTime,
        duration_minutes |-> 0, is_demurrage |-> FALSE])
  /\ Reply(rq, Success(201, {"data"}))
  /\ UNCHANGED <<clientVars, accountVars, roundsHalfToEven, bnow, companies, user_sessions, weekly_demurrage>>

\* resumed after getActiveSession: answers 400 without a session, otherwise
\* createStopEvent inserts the open row and the route answers 201
postTrackingStart_session(rq) ==
  /\ rq.pc = "start_session"
  /\ IF rq.found
     THEN /\ Len(stop_events) < MaxBackendEvents
          /\ stop_events' = Append(stop_events,
               [company_id |-> companyOf(rq.user), user_id |-> rq.user,
                start_time |-> bnow, end_time |-> NoTime,
                duration_minutes |-> 0, is_demurrage |-> FALSE])
          /\ Reply(rq, Success(201, {"data"}))
     ELSE /\ UNCHANGED stop_events
          /\ Reply(rq, Failure(400, "No active session"))
  /\ UNCHANGED <<clientVars, accountVars, roundsHalfToEven, bnow, companies, user_sessions, weekly_demurrage>>

\* POST /tracking/end up to its await getActiveStopEvent
postTrackingEnd(u) ==
  /\ CanAccept
  /\ \E r \in backendGetActiveStopEvent(u) :
       requests' = Accept([NewRequest("end", "end_active", u)
                           EXCEPT !.event = r])
  /\ UNCHANGED <<clientVars, accountVars, response, roundsHalfToEven, bnow, companies, user_sessions, stop_events,
                 weekly_demurrage>>

\* resumed after getActiveStopEvent: answers 400 without an open event,
\* otherwise reads the company settings
postTrackingEnd_active(rq) ==
  /\ rq.pc = "end_active"
  /\ IF rq.event = None
     THEN Reply(rq, Failure(400, "No active stop event"))
     ELSE /\ requests' = Replace(rq,
               [rq EXCEPT !.pc = "end_settings",
                          !.threshold = backendThresholdOf(companyOf(rq.user))])
          /\ UNCHANGED response
  /\ UNCHANGED <<clientVars, accountVars, roundsHalfToEven, bnow, companies, user_sessions, stop_events,
                 weekly_demurrage>>

\* resumed after getCompanySettings: endStopEvent issues its UPDATE, which
\* sets end_time, duration_minutes and is_demurrage of the row with that id
postTrackingEnd_settings(rq) ==
  /\ rq.pc = "end_settings"
  /\ LET id == Val(rq.event)
         elapsed == bnow - stop_events[id].start_time
     IN stop_events' = [stop_events EXCEPT ![id] =
          [@ EXCEPT !.end_time = bnow,
                    !.duration_minutes = backendDurationMinutes(elapsed),
                    !.is_demurrage =
                       backendIsDemurrage(elapsed, rq.threshold)]]
  /\ requests' = Replace(rq, [rq EXCEPT !.pc = "end_update"])
  /\ UNCHANGED <<clientVars, accountVars, response, roundsHalfToEven, bnow, companies, user_sessions, weekly_demurrage>>

\* endStopEvent, resumed after its UPDATE with the returned row: a demurrage
\* row calls updateWeeklyDemurrage, whose getOrCreateWeeklyDemurrage selects
\* the weekly row; otherwise the route answers
backendEndStopEvent_update(rq) ==
  /\ rq.pc = "end_update"
  /\ LET row == stop_events[Val(rq.event)]
         week == backendWeekStart(row.start_time)
     IN IF row.is_demurrage
        THEN /\ requests' = Replace(rq,
                  [rq EXCEPT !.pc = "uwd_select",
                             !.week = week,
                             !.found = (<<row.company_id, week>>
                                          \in DOMAIN weekly_demurrage)])
             /\ UNCHANGED response
        ELSE Reply(rq, Success(200, {"data"}))
  /\ UNCHANGED <<clientVars, accountVars, roundsHalfToEven, bnow, companies, user_sessions, stop_events,
                 weekly_demurrage>>

\* the request after it issued getDemurrageEventsByWeek
backendReadEvents(rq) ==
  LET ids == backendGetDemurrageEventsByWeek(
               stop_events[Val(rq.event)].company_id, rq.week)
  IN [rq EXCEPT !.pc = "uwd_events",
                !.total = backendSumDuration(ids),
                !.count = Cardinality(ids)]

\* getOrCreateWeeklyDemurrage, resumed after its SELECT: inserts the row
\* when none was found (a row inserted meanwhile violates the UNIQUE
\* constraint and the route answers 500); with a row it returns, and
\* updateWeeklyDemurrage reads the week's demurrage events
backendGetOrCreateWeeklyDemurrage_select(rq) ==
  /\ rq.pc = "uwd_select"
  /\ LET key == <<stop_events[Val(rq.event)].company_id, rq.week>>
     IN IF rq.found
        THEN /\ requests' = Replace(rq, backendReadEvents(rq))
             /\ UNCHANGED <<weekly_demurrage, response>>
        ELSE IF key \in DOMAIN weekly_demurrage
        THEN /\ Reply(rq, Failure(500, "duplicate key"))
             /\ UNCHANGED weekly_demurrage
        ELSE /\ UNCHANGED response
             /\ weekly_demurrage' =
                  (key :> [total_minutes |-> 0, event_count |-> 0,
                           recomputed |-> FALSE]) @@ weekly_demurrage
             /\ requests' = Replace(rq, [rq EXCEPT !.pc = "uwd_insert"])
  /\ UNCHANGED <<clientVars, accountVars, roundsHalfToEven, bnow, companies, user_sessions, stop_events>>

\* resumed after the INSERT: updateWeeklyDemurrage reads the week's events
backendGetOrCreateWeeklyDemurrage_insert(rq) ==
  /\ rq.pc = "uwd_insert"
  /\ requests' = Replace(rq, backendReadEvents(rq))
  /\ UNCHANGED <<clientVars, accountVars, response, roundsHalfToEven, bnow, companies, user_sessions, stop_events,
                 weekly_demurrage>>

\* updateWeeklyDemurrage, resumed after getDemurrageEventsByWeek: writes the
\* totals it summed (Math.round of a sum of integers) and the route answers
backendUpdateWeeklyDemurrage_events(rq) ==
  /\ rq.pc = "uwd_events"
  /\ LET key == <<stop_events[Val(rq.event)].company_id, rq.week>>
     IN weekly_demurrage' =
          IF key \in DOMAIN weekly_demurrage
          THEN [weekly_demurrage EXCEPT ![key] =
                  [total_minutes |-> rq.total, event_count |-> rq.count,
                   recomputed |-> TRUE]]
          ELSE weekly_demurrage
  /\ Reply(rq, Success(200, {"data"}))
  /\ UNCHANGED <<clientVars, accountVars, roundsHalfToEven, bnow, companies, user_sessions, stop_events>>

BackendNext ==
  \/ BackendTick
  \/ \E c \in Companies, T \in 0..MaxThreshold : updateCompany(c, T)
  \/ \E u \in Users : postLogin(u)
  \/ \E rq \in Pending : createSession_insert(rq)
  \/ \E s \in 1..MaxSessions : postLogout(s)
  \/ \E u \in Users : postTrackingStart(u)
  \/ \E rq \in Pending : postTrackingStart_active(rq)
  \/ \E rq \in Pending : postTrackingStart_session(rq)
  \/ \E u \in Users : postTrackingEnd(u)
  \/ \E rq \in Pending : postTrackingEnd_active(rq)
  \/ \E rq \in Pending : postTrackingEnd_settings(rq)
  \/ \E rq \in Pending : backendEndStopEvent_update(rq)
  \/ \E rq \in Pending : backendGetOrCreateWeeklyDemurrage_select(rq)
  \/ \E rq \in Pending : backendGetOrCreateWeeklyDemurrage_insert(rq)
  \/ \E rq \in Pending : backendUpdateWeeklyDemurrage_events(rq)

SpecBackend == InitBackend /\ [][BackendNext]_vars

\* ------------------------------------------------- classifier behaviour
MotionNext ==
  \/ startMotionDetection
  \/ \E tk \in InFlight : startMotionDetection_available(tk)
  \/ \E tk \in InFlight : startMotionDetection_permission(tk)
  \/ stopMotionDetectionCall
  \/ \E a \in Accelerations : accelerometerSample(a)
  \/ \E s \in Speeds : locationUpdate(s)
  \/ stopConfirmationTimerFires
  \/ movementConfirmationTimerFires
  \/ \E tm \in leakedTimers : leakedTimerFires(tm)
  \/ MotionTick
  \/ \E s \in Speeds : forceCheckMotionState(s)

SpecMotion == Init /\ [][MotionNext]_vars

\* Time passes and a timer that has expired runs its callback; samples,
\* location updates and the calls of the module's functions need not happen.
MotionFairness ==
  /\ WF_vars(MotionTick)
  /\ WF_vars(stopConfirmationTimerFires)
  /\ WF_vars(movementConfirmationTimerFires)
  /\ WF_vars(\E tm \in leakedTimers : leakedTimerFires(tm))

SpecMotionFair == Init /\ [][MotionNext]_vars /\ MotionFairness

\* ------------------------------------------------------ backend properties
OpenRowsOf(u) == {id \in DOMAIN stop_events :
                    /\ stop_events[id].user_id = u
                    /\ stop_events[id].end_time = NoTime}

\* C2: no user ever has more than one stop_events row whose end_time is
\* NULL, also when two POST /tracking/start requests of the user interleave
C2_AtMostOneOpenRowPerUser ==
  \A u \in Users : Cardinality(OpenRowsOf(u)) <= 1

\* the request rq issues the UPDATE of endStopEvent in this step
IssuesEndUpdate(rq) ==
  /\ rq \in Pending
  /\ rq.pc = "end_settings"
  /\ CopiesIn(rq, requests') < CopiesIn(rq, requests)

\* C4: the UPDATE of endStopEvent(eventId, location, T) stores
\* is_demurrage = TRUE exactly when the duration_minutes it stores exceeds
\* the threshold T the route passed
C4_BackendDemurrageIffOverThreshold ==
  [][\A rq \in Pending :
       IssuesEndUpdate(rq)
       => (stop_events'[Val(rq.event)].is_demurrage
             <=> stop_events'[Val(rq.event)].duration_minutes
                   > rq.threshold)]_vars

\* C8: when no request is in flight, every weekly_demurrage row that has
\* been recomputed holds the sum of duration_minutes and the number of its
\* company's is_demurrage events that started in its week
C8_BackendWeeklyTotalsMatchEvents ==
  NoRequestInFlight =>
    \A key \in DOMAIN weekly_demurrage :
      weekly_demurrage[key].recomputed =>
        /\ weekly_demurrage[key].total_minutes
             = backendSumDuration(
                 backendGetDemurrageEventsByWeek(key[1], key[2]))
        /\ weekly_demurrage[key].event_count
             = Cardinality(backendGetDemurrageEventsByWeek(key[1], key[2]))

\* C10: once a stop_events row has end_time set, no step changes its
\* end_time, duration_minutes or is_demurrage
C10_BackendClosedRowImmutable ==
  [][\A id \in DOMAIN stop_events :
       stop_events[id].end_time # NoTime
       => /\ stop_events'[id].end_time = stop_events[id].end_time
          /\ stop_events'[id].duration_minutes
               = stop_events[id].duration_minutes
          /\ stop_events'[id].is_demurrage
               = stop_events[id].is_demurrage]_vars

\* --------------------------------------------------- classifier properties
\* C5: the state changes from Moving to Stopped only when the smoothed
\* readings have been below both thresholds for STOP_CONFIRMATION_TIME
\* without a break
C5_StoppedOnlyAfterConfirmation ==
  [][(isMoving /\ ~isMoving')
       => (runKind = "below" /\ runMs >= STOP_CONFIRMATION_TIME)]_vars

\* C6: the state changes from Stopped to Moving only when the smoothed
\* readings have been above a threshold for MOVEMENT_CONFIRMATION_TIME
\* without a break
C6_MovingOnlyAfterConfirmation ==
  [][(~isMoving /\ isMoving')
       => (runKind = "above" /\ runMs >= MOVEMENT_CONFIRMATION_TIME)]_vars


\* ------------------------------------------------- mobile client properties
StoredEvent(store, id) == decrypt(store[id].encrypted_data)

OpenEvents == {id \in DOMAIN stopEvents :
                 StoredEvent(stopEvents, id).endTime = NoTime}

\* C1: the local store never holds more than one StopEvent whose endTime is
\* null, whatever the interleaving of motion callbacks, background updates,
\* startTracking and stopTracking
C1_AtMostOneOpenEvent == Cardinality(OpenEvents) <= 1

\* the threshold stored in the settings row
ConfiguredThreshold == decrypt(Val(settings)).demurrageThresholdMinutes

\* the stored event id is open before the step and closed after it
ClosedByStep(id) ==
  /\ id \in DOMAIN stopEvents
  /\ StoredEvent(stopEvents, id).endTime = NoTime
  /\ StoredEvent(stopEvents', id).endTime # NoTime

C9_ClosedEventImmutable ==
  [][\A id \in DOMAIN stopEvents :
       StoredEvent(stopEvents, id).endTime # NoTime
       => /\ id \in DOMAIN stopEvents'
          /\ StoredEvent(stopEvents', id).startTime
               = StoredEvent(stopEvents, id).startTime
          /\ StoredEvent(stopEvents', id).endTime
               = StoredEvent(stopEvents, id).endTime
          /\ StoredEvent(stopEvents', id).durationMinutes
               = StoredEvent(stopEvents, id).durationMinutes
          /\ StoredEvent(stopEvents', id).isDemurrage
               = StoredEvent(stopEvents, id).isDemurrage]_vars

\* the coordinator's endStopEvent returns in this step: the invocation tk
\* clears the current stop event it closed
EndStopEventReturns(tk) ==
  /\ tk.kind \in {"handleMotionChange", "stopTracking"}
  /\ tk.pc \in {"ese_update", "rwd_get"}
  /\ currentStopEvent # None
  /\ currentStopEvent' = None

\* the coordinator's endStopEvent closes the stored event id in this step
ClosedByEndStopEvent(id) ==
  /\ ClosedByStep(id)
  /\ currentStopEvent' = Some(StoredEvent(stopEvents', id))

Resumes(rq) == CopiesIn(rq, requests') < CopiesIn(rq, requests)

\* C12: the UPDATE of endStopEvent that stores a duration_minutes not above
\* the threshold stores is_demurrage = FALSE, and a POST /tracking/end request
\* writes a weekly_demurrage row only for an event whose duration_minutes
\* exceeds the threshold
C12_ShortStopLeavesWeekUnchanged ==
  [][\A rq \in Pending :
       /\ (/\ IssuesEndUpdate(rq)
           /\ stop_events'[Val(rq.event)].duration_minutes <= rq.threshold)
          => ~stop_events'[Val(rq.event)].is_demurrage
       /\ (/\ rq.kind = "end"
           /\ Resumes(rq)
           /\ weekly_demurrage' # weekly_demurrage)
          => stop_events[Val(rq.event)].duration_minutes > rq.threshold]_vars

\* ------------------------------------------------- coordinator properties
\* stopTracking resolves in this step: it clears the state callback
StopTrackingResolves == stateCallback /\ ~stateCallback'

\* C13: never are two refresh intervals scheduled, and when stopTracking
\* resolves none is scheduled, however startTracking and stopTracking calls
\* overlap
C13_RefreshIntervalCleared ==
  [][/\ intervals' <= 1
     /\ StopTrackingResolves => intervals' = 0]_vars

\* ---------------------------------------------------- timers of motion.ts
\* the confirmation timers that are armed: the two whose handles the module
\* holds and those whose handle it overwrote
ArmedTimers ==
  Armed("stopped", stopConfirmationTimer)
    \cup Armed("moving", movementConfirmationTimer)
    \cup leakedTimers

\* stopMotionDetection runs in this step on a started detection
StopMotionDetectionStep ==
  /\ isRunning \/ accelerometerSubscription \/ motionCallback # NoCallback
  /\ ~isRunning'
  /\ ~accelerometerSubscription'
  /\ motionCallback' = NoCallback

\* what the timers are after the step
ArmedTimersAfter ==
  Armed("stopped", stopConfirmationTimer')
    \cup Armed("moving", movementConfirmationTimer')
    \cup leakedTimers'

\* C14: at most one confirmation timer is armed at any time, and none is
\* armed once stopMotionDetection has run
C14_AtMostOneTimerArmed ==
  [][/\ Cardinality(ArmedTimersAfter) <= 1
     /\ StopMotionDetectionStep => ArmedTimersAfter = {}]_vars

\* ------------------------------------------------ opening of stop events
\* the motion module notifies handleMotionChange of Stopped in this step
StoppedNotified ==
  /\ motionCallback = "handleMotionChange"
  /\ isMoving
  /\ ~isMoving'

\* a startStopEvent resumes in this step from its awaits before the save
StartStopEventSaves(tk) ==
  /\ tk.pc = "sse_settings"
  /\ CopiesIn(tk, tasks') < CopiesIn(tk, tasks)

NewEventIds == DOMAIN stopEvents' \ DOMAIN stopEvents

\* C15: a Stopped notification with no current stop event starts exactly one
\* startStopEvent, which saves exactly one new event, open, of duration 0,
\* not flagged, with the reason startTracking stored (none when it was given
\* none); a Stopped notification while a stop event is current starts
\* nothing and creates no event
C15_StoppedOpensOneEvent ==
  [][/\ (StoppedNotified /\ currentStopEvent = None)
          => /\ tasks' = Add(tasks, [NewTask("handleMotionChange",
                                             "sse_settings")
                                     EXCEPT !.isMoving = FALSE])
             /\ stopEvents' = stopEvents
     /\ (StoppedNotified /\ currentStopEvent # None)
          => /\ tasks' = tasks
             /\ stopEvents' = stopEvents
     /\ \A tk \in InFlight :
          StartStopEventSaves(tk)
          => \E id \in NewEventIds :
               /\ NewEventIds = {id}
               /\ \A old \in DOMAIN stopEvents :
                    stopEvents'[old] = stopEvents[old]
               /\ StoredEvent(stopEvents', id).endTime = NoTime
               /\ StoredEvent(stopEvents', id).durationMinutes = 0
               /\ ~StoredEvent(stopEvents', id).isDemurrage
               /\ ~stopEvents'[id].is_demurrage
               /\ StoredEvent(stopEvents', id).reason = pendingReason
               /\ currentStopEvent' = Some(StoredEvent(stopEvents', id))
     /\ NewEventIds # {}
          => \E tk \in InFlight : StartStopEventSaves(tk)
     /\ pendingReason' # pendingReason
          => /\ ~isTracking
             /\ \E tk \in BagToSet(tasks') :
                  /\ tk.kind = "startTracking"
                  /\ CopiesIn(tk, tasks') > CopiesIn(tk, tasks)]_vars

\* a stop event with the reason given to startTracking has just been saved
C15_Witness ==
  /\ pendingReason = "other"
  /\ currentStopEvent # None
  /\ \E tk \in InFlight : tk.pc = "sse_save"
  /\ Val(currentStopEvent).id \in DOMAIN stopEvents
  /\ StoredEvent(stopEvents, Val(currentStopEvent).id).reason = "other"
  /\ StoredEvent(stopEvents, Val(currentStopEvent).id).endTime = NoTime

\* ------------------------------------------------------ periodic refresh
\* a periodic refresh of the open event resumes from an await in this step
RefreshResumes(tk) ==
  /\ tk.kind = "updateCurrentStopDuration"
  /\ CopiesIn(tk, tasks') < CopiesIn(tk, tasks)

\* the weekly totals are the same after the step
WeeklyTotalsUnchanged ==
  \A w \in DOMAIN weeklyDemurrage \cup DOMAIN weeklyDemurrage' :
    TotalsOf(weeklyDemurrage', w) = TotalsOf(weeklyDemurrage, w)

\* C16: a step of the periodic refresh of an open stop event changes only
\* that event's durationMinutes and isDemurrage (its startTime stays, its
\* endTime stays null, no other event changes) and leaves the totals of
\* every weekly record as they were
C16_RefreshLeavesWeekUnchanged ==
  [][\A tk \in InFlight :
       (/\ RefreshResumes(tk)
        /\ currentStopEvent # None
        /\ Val(currentStopEvent).endTime = NoTime)
       => /\ WeeklyTotalsUnchanged
          /\ DOMAIN stopEvents' = DOMAIN stopEvents
          /\ \A id \in DOMAIN stopEvents :
               IF id = Val(currentStopEvent).id
               THEN StoredEvent(stopEvents', id)
                      = [StoredEvent(stopEvents, id) EXCEPT
                           !.durationMinutes =
                              StoredEvent(stopEvents', id).durationMinutes,
                           !.isDemurrage =
                              StoredEvent(stopEvents', id).isDemurrage]
               ELSE stopEvents'[id] = stopEvents[id]]_vars

\* ------------------------------------------- recalculateWeeklyDemurrage
\* the totals a full recomputation of week w gives on the stored events
RecomputedTotals(store, w) ==
  [event_count |-> Cardinality(getDemurrageEventsByWeek(store, w)),
   total |-> SumDuration(store, getDemurrageEventsByWeek(store, w))]

\* C17: when recalculateWeeklyDemurrage(W) is about to return, a record of
\* week W is stored and its totals are the number and the summed durations
\* of the stored demurrage-flagged events of week W
C17_RecalculateIsFullRecomputation ==
  \A tk \in InFlight :
    tk.pc = "rwd_get"
    => /\ tk.week \in DOMAIN weeklyDemurrage
       /\ TotalsOf(weeklyDemurrage, tk.week)
            = RecomputedTotals(stopEvents, tk.week)

\* -------------------------------------------------- settings after start
\* C18: when initializeDatabase ends it has resolved and getSettings returns
\* a record; when its own getSettings found no row or could not read the row,
\* it stores DEFAULT_SETTINGS, readable with the key in use, and does not
\* fail
C18_SettingsReadableAfterInit ==
  [][/\ (initOutcome = "pending" /\ initOutcome' # "pending")
          => /\ initOutcome' = "resolved"
             /\ getSettingsOutcome(settings') = "record"
             /\ settingsRead' \in {"null", "throws"}
                  => decrypt(Val(settings')) = DEFAULT_SETTINGS
     /\ \A tk \in InFlight :
          (/\ tk.pc = "init_getSettings"
           /\ CopiesIn(tk, tasks') < CopiesIn(tk, tasks)
           /\ getSettingsOutcome(settings) # "record")
          => /\ initOutcome' # "rejected"
             /\ getSettingsOutcome(settings') = "record"
             /\ decrypt(Val(settings')) = DEFAULT_SETTINGS]_vars

\* initializeDatabase has resolved in a run whose key is not the one the
\* stored settings were encrypted with
C18_Witness ==
  /\ initOutcome = "resolved"
  /\ settingsRead = "throws"
  /\ getSettingsOutcome(settings) = "record"
  /\ decrypt(Val(settings)) = DEFAULT_SETTINGS

\* ------------------------------------------------ closing of stop events
\* the stored event id is open
OpenStored(id) ==
  /\ id \in DOMAIN stopEvents
  /\ StoredEvent(stopEvents, id).endTime = NoTime

\* the last notification the motion module delivered was Moving, or
\* stopTracking has unregistered the motion callback
CloseDue == isMoving \/ motionCallback = NoCallback

\* C19: a stored stop event that is open after a Moving notification was
\* delivered or stopTracking was called is eventually closed
C19_OpenEventEventuallyClosed ==
  \A id \in 1..MaxEvents : (OpenStored(id) /\ CloseDue) ~> ~OpenStored(id)

\* ------------------------------------------------------ after stopTracking
\* some stored stop event is open after the step
OpenStoredAfter ==
  \E id \in DOMAIN stopEvents' :
    StoredEvent(stopEvents', id).endTime = NoTime

\* C20: when stopTracking resolves, isTracking is false, there is no current
\* stop event and no stored stop event is open; and a stop event is saved
\* only between a call of startTracking and the end of the stopTracking that
\* follows it
C20_NothingOpenAfterStopTracking ==
  [][/\ StopTrackingResolves
          => /\ ~isTracking'
             /\ currentStopEvent' = None
             /\ ~OpenStoredAfter
     /\ NewEventIds # {} => stateCallback]_vars

\* ------------------------------------------------ resuming an open event
\* startTracking is called in this step: tk is its invocation, suspended at
\* await getCurrentStopEvent()
StartTrackingCalled(tk) ==
  /\ tk.kind = "startTracking"
  /\ tk.pc = "st_getCurrent"
  /\ CopiesIn(tk, tasks') > CopiesIn(tk, tasks)

\* C21: when startTracking is called while the store holds an open stop
\* event, getCurrentStopEvent returns an open stored event, and that event
\* becomes the current stop event when startTracking resumes
C21_OpenEventIsResumed ==
  [][/\ \A tk \in BagToSet(tasks') :
          (StartTrackingCalled(tk) /\ OpenEvents # {})
          => /\ tk.ev # None
             /\ Val(tk.ev).id \in OpenEvents
             /\ Val(tk.ev) = StoredEvent(stopEvents, Val(tk.ev).id)
     /\ \A tk \in InFlight :
          (tk.pc = "st_getCurrent" /\ CopiesIn(tk, tasks') < CopiesIn(tk, tasks))
          => currentStopEvent' = tk.ev]_vars

\* ------------------------------------------------- a close that fails
\* C22: when the updateStopEvent of endStopEvent has rejected and
\* endStopEvent has returned, the current stop event is the event as it was
\* before the attempt, open, and stored so; the weekly records are unchanged
C22_FailedCloseLeavesStateAsBefore ==
  [][\A tk \in InFlight :
       (tk.pc = "ese_rejected" /\ CopiesIn(tk, tasks') < CopiesIn(tk, tasks))
       => /\ currentStopEvent' = tk.ev
          /\ Val(currentStopEvent').endTime = NoTime
          /\ StoredEvent(stopEvents', Val(tk.ev).id) = Val(tk.ev)
          /\ weeklyDemurrage' = weeklyDemurrage]_vars

\* ------------------------------------------------ confirmed transitions
\* a sample below both thresholds was processed while Moving and none above
\* a threshold since: the change to Stopped awaits its confirmation
StopPending == isMoving /\ pendingStateChange = "stopped"

\* symmetrically for the change to Moving
MovementPending == ~isMoving /\ pendingStateChange = "moving"

\* the registered callback is invoked once in this step, with isMoving = m
CalledOnceWith(m) ==
  /\ observedCalls' # observedCalls
  /\ observedMoving' = m

\* C23: the first sample below both thresholds while Moving arms a timer of
\* STOP_CONFIRMATION_TIME, which stays armed while the samples stay below;
\* when it expires while the detection runs with a callback registered, the
\* state becomes Stopped and the callback is invoked once with
\* isMoving = false; and this does happen unless a sample
\* above a threshold or a stop of the detection comes first. Symmetrically
\* for Stopped, MOVEMENT_CONFIRMATION_TIME and isMoving = true.
C23_ConfirmedTransitionNotifiesOnce ==
  /\ [][/\ (pendingStateChange # "stopped" /\ pendingStateChange' = "stopped")
             => /\ isMoving
                /\ stopConfirmationTimer' = Some(STOP_CONFIRMATION_TIME)
        /\ (pendingStateChange # "moving" /\ pendingStateChange' = "moving")
             => /\ ~isMoving
                /\ movementConfirmationTimer'
                     = Some(MOVEMENT_CONFIRMATION_TIME)
        /\ pendingStateChange' = "stopped" => stopConfirmationTimer' # None
        /\ pendingStateChange' = "moving"
             => movementConfirmationTimer' # None
        /\ (StopPending /\ stopConfirmationTimer = Some(0)
              /\ stopConfirmationTimer' = None /\ isRunning'
              /\ samples' = samples /\ motionCallback = "observer")
             => /\ ~isMoving'
                /\ pendingStateChange' = "null"
                /\ CalledOnceWith(FALSE)
        /\ (MovementPending /\ movementConfirmationTimer = Some(0)
              /\ movementConfirmationTimer' = None /\ isRunning'
              /\ samples' = samples /\ motionCallback = "observer")
             => /\ isMoving'
                /\ pendingStateChange' = "null"
                /\ CalledOnceWith(TRUE)]_vars
  /\ StopPending ~> ~StopPending
  /\ MovementPending ~> ~MovementPending

\* the state has become Stopped after STOP_CONFIRMATION_TIME of samples
\* below both thresholds and the callback was given isMoving = false
C23_Witness ==
  /\ isRunning
  /\ motionCallback = "observer"
  /\ ~isMoving
  /\ ~observedMoving
  /\ observedCalls = 0
  /\ stopConfirmationTimer = None
  /\ leakedTimers = {}
  /\ pendingStateChange = "null"
  /\ runKind = "below"
  /\ runMs >= STOP_CONFIRMATION_TIME

\* ------------------------------------------------------------------- C24
\* the request the step accepts
Accepted(rq) == CopiesIn(rq, requests') > CopiesIn(rq, requests)
ActiveSessionsOf(u) == {id \in DOMAIN user_sessions :
                          /\ user_sessions[id].user_id = u
                          /\ ~user_sessions[id].ended}
RowsUnchanged ==
  /\ stop_events' = stop_events
  /\ weekly_demurrage' = weekly_demurrage
  /\ user_sessions' = user_sessions
Rejected400(rq) ==
  /\ CopiesIn(rq, requests') < CopiesIn(rq, requests)
  /\ response'.status = 400
  /\ RowsUnchanged

\* C24: a POST /tracking/start request whose getActiveStopEvent ran while
\* the user had an open stop_events row, or whose getActiveSession ran while
\* the user had no active session, is answered 400 and changes no row; a
\* POST /tracking/end request whose getActiveStopEvent ran while the user
\* had no open row is answered 400 and changes no row
C24_RejectedRequestsChangeNoRow ==
  [][ /\ \A rq \in BagToSet(requests') :
           (Accepted(rq) /\ rq.pc \in {"start_active", "end_active"})
             => (rq.event # None <=> OpenRowsOf(rq.user) # {})
      /\ \A rq \in Pending :
           /\ (rq.kind = "start" /\ rq.pc = "start_active" /\ Resumes(rq))
                => /\ rq.event # None => Rejected400(rq)
                   /\ rq.event = None =>
                        \E nx \in BagToSet(requests') :
                          /\ nx.pc = "start_session"
                          /\ nx.found <=> ActiveSessionsOf(rq.user) # {}
           /\ (rq.kind = "start" /\ rq.pc = "start_session" /\ Resumes(rq)
                 /\ ~rq.found) => Rejected400(rq)
           /\ (rq.kind = "end" /\ rq.pc = "end_active" /\ Resumes(rq)
                 /\ rq.event = None) => Rejected400(rq)
    ]_vars

C24_Witness ==
  /\ response = Failure(400, "No active session")
  /\ stop_events # <<>>
  /\ \E u \in Users : OpenRowsOf(u) = {} /\ ActiveSessionsOf(u) = {}

\* ------------------------------------------------- login and logout alone
\* the login and logout routes on their own, with room for more sessions
InitSessions ==
  /\ InitTables /\ InitDevice /\ roundsHalfToEven = FALSE
  /\ taskLimit = MaxTasks
  /\ companies = [c \in 1..MaxCompanies |->
                    [demurrage_threshold_minutes |-> DEFAULT_THRESHOLD]]
  /\ users = <<>>
  /\ sessionLimit = MaxLogins
  /\ requestLimit = MaxRequests

SessionsNext ==
  \/ \E u \in Users : postLogin(u)
  \/ \E rq \in Pending : createSession_insert(rq)
  \/ \E s \in 1..MaxLogins : postLogout(s)

SpecSessions == InitSessions /\ [][SessionsNext]_vars

\* ------------------------------------------------------------------- C25
\* C25: after any sequence of logins and logouts, also of two logins of one
\* user whose UPDATE and INSERT interleave, every user has at most one
\* user_sessions row whose ended_at is NULL
C25_AtMostOneActiveSessionPerUser ==
  \A u \in Users : Cardinality(ActiveSessionsOf(u)) <= 1

\* ---------------------------------------- accounts, invitations, vehicles
Tenants == 1..MaxTenants
Emails == 1..MaxEmails
Regos == 1..MaxRegos
UserRoles == {"owner", "admin", "driver"}

\* a row of users as INSERT INTO users stores it: is_active defaults to
\* true
UserRow(c, e, r) ==
  [company_id |-> c, email |-> e, role |-> r, is_active |-> TRUE]

\* the Authorization header of a request: none, a token jwt.verify rejects
\* (expired, or not signed with the secret), or a token generateToken
\* issued, with its payload
NoToken == [kind |-> "none", userId |-> 0, companyId |-> 0,
            role |-> "driver"]
TokenOf(id) ==
  [kind |-> "valid", userId |-> id, companyId |-> users[id].company_id,
   role |-> users[id].role]
\* tokens are issued at login, to users whose row is active
Headers ==
  {NoToken, [NoToken EXCEPT !.kind = "expired"],
   [NoToken EXCEPT !.kind = "invalid"]}
    \cup {TokenOf(id) : id \in {i \in DOMAIN users : users[i].is_active}}

\* authenticate: the response it sends, NoResponse when it calls next()
authenticate(h) ==
  IF h.kind = "none" THEN Failure(401, "No token provided")
  ELSE IF h.kind = "expired" THEN Failure(401, "Token expired")
  ELSE IF h.kind = "invalid" THEN Failure(401, "Invalid token")
  ELSE NoResponse

\* a guard that lets every role pass
authorizeAnyRole(allowedRoles, h) == NoResponse

\* authorize(...allowedRoles): the response it sends, NoResponse when it
\* calls next()
authorize(allowedRoles, h) ==
  IF h.role \notin allowedRoles
  THEN Failure(403, "Insufficient permissions")
  ELSE NoResponse

\* router.<method>(path, authenticate, authorize(roles), handler): the
\* response of the first middleware that does not call next()
guard(allowedRoles, h) ==
  IF authenticate(h) # NoResponse THEN authenticate(h)
  ELSE authorize(allowedRoles, h)

trackingVars == <<roundsHalfToEven, bnow, user_sessions, stop_events,
                  weekly_demurrage, sessionLimit, requestLimit>>

\* a middleware answered: the handler never runs
rejects(r) ==
  /\ response' = r
  /\ UNCHANGED <<clientVars, trackingVars, companies, users, invitations,
                 vehicles, requests>>

\* the fields of a row an UPDATE .. SET may name: None leaves it out
UserUpdates ==
  {[role |-> None, isActive |-> None],
   [role |-> Some("admin"), isActive |-> None],
   [role |-> Some("driver"), isActive |-> None]}

\* updateUser: UPDATE users SET .. WHERE id = $n RETURNING *
updateUser(userId, updates) ==
  IF userId \in DOMAIN users
  THEN [users EXCEPT ![userId] =
         [@ EXCEPT !.role = IF updates.role = None THEN @
                             ELSE Val(updates.role),
                   !.is_active = IF updates.isActive = None THEN @
                                  ELSE Val(updates.isActive)]]
  ELSE users

\* PATCH /auth/users/:userId
patchUser(h, userId, updates) ==
  IF guard({"owner", "admin"}, h) # NoResponse
  THEN rejects(guard({"owner", "admin"}, h))
  ELSE /\ users' = IF updates.role = None /\ updates.isActive = None
                    THEN users
                    ELSE updateUser(userId, updates)
       /\ response' =
            IF (updates.role = None /\ updates.isActive = None)
                 \/ userId \notin DOMAIN users
            THEN Failure(404, "User not found")
            ELSE Success(200, {"data"})
       /\ UNCHANGED <<clientVars, trackingVars, companies, invitations,
                      vehicles, requests>>

\* addVehicle: INSERT .. ON CONFLICT (company_id, truck_rego) DO UPDATE
addVehicle(companyId, truckRego) ==
  IF \E id \in DOMAIN vehicles :
       /\ vehicles[id].company_id = companyId
       /\ vehicles[id].truck_rego = truckRego
  THEN vehicles
  ELSE Append(vehicles, [company_id |-> companyId, truck_rego |-> truckRego,
                         is_active |-> TRUE])

\* POST /vehicles
postVehicle(h, truckRego) ==
  IF guard({"owner", "admin"}, h) # NoResponse
  THEN rejects(guard({"owner", "admin"}, h))
  ELSE /\ Len(addVehicle(h.companyId, truckRego)) <= MaxVehicles
       /\ vehicles' = addVehicle(h.companyId, truckRego)
       /\ response' = Success(201, {"data"})
       /\ UNCHANGED <<clientVars, trackingVars, companies, users,
                      invitations, requests>>

\* updateVehicle: UPDATE vehicles SET is_active = $1 WHERE id = $2
updateVehicle(vehicleId, isActive) ==
  IF vehicleId \in DOMAIN vehicles
  THEN [vehicles EXCEPT ![vehicleId].is_active = isActive]
  ELSE vehicles

\* PATCH /vehicles/:vehicleId with isActive in the body
patchVehicle(h, vehicleId, isActive) ==
  IF guard({"owner", "admin"}, h) # NoResponse
  THEN rejects(guard({"owner", "admin"}, h))
  ELSE /\ vehicles' = updateVehicle(vehicleId, isActive)
       /\ response' = IF vehicleId \in DOMAIN vehicles
                       THEN Success(200, {"data"})
                       ELSE Failure(404, "Vehicle not found")
       /\ UNCHANGED <<clientVars, trackingVars, companies, users,
                      invitations, requests>>

\* DELETE /vehicles/:vehicleId: deleteVehicle sets is_active = false
deleteVehicle(h, vehicleId) ==
  IF guard({"owner", "admin"}, h) # NoResponse
  THEN rejects(guard({"owner", "admin"}, h))
  ELSE /\ vehicles' = updateVehicle(vehicleId, FALSE)
       /\ response' = Success(200, {"message"})
       /\ UNCHANGED <<clientVars, trackingVars, companies, users,
                      invitations, requests>>

\* PATCH /company: updateCompany(req.user.companyId, ..)
patchCompany(h, T) ==
  IF guard({"owner"}, h) # NoResponse
  THEN rejects(guard({"owner"}, h))
  ELSE updateCompany(h.companyId, T)

\* a request of the account routes that is suspended on an await
AccountRequest(kind, pc) ==
  [kind |-> kind, pc |-> pc, company |-> 0, user |-> 0, email |-> 0,
   role |-> "driver", inv |-> None, found |-> FALSE]

\* "WHERE token = $1 AND expires_at > NOW() AND used_at IS NULL"; the
\* token of an invitation is written as the number of its row
ValidInvitation(token) ==
  /\ token \in DOMAIN invitations
  /\ ~invitations[token].used
  /\ invitations[token].expires_at > bnow

\* "SELECT id FROM users WHERE LOWER(email) = LOWER($1) AND company_id = $2"
UserInCompany(email, companyId) ==
  \E id \in DOMAIN users :
    users[id].email = email /\ users[id].company_id = companyId

\* "SELECT id FROM invitations WHERE LOWER(email) = LOWER($1) AND
\* company_id = $2 AND expires_at > NOW() AND used_at IS NULL"
PendingInvitation(email, companyId) ==
  \E id \in DOMAIN invitations :
    /\ invitations[id].email = email
    /\ invitations[id].company_id = companyId
    /\ ValidInvitation(id)

\* POST /auth/invite up to the first await of createInvitation
postInvite(h, email, role) ==
  IF guard({"owner", "admin"}, h) # NoResponse
  THEN rejects(guard({"owner", "admin"}, h))
  ELSE /\ CanAccept
       /\ requests' = Accept(
            [AccountRequest("invite", "ci_user") EXCEPT
               !.company = h.companyId, !.user = h.userId,
               !.email = email, !.role = role,
               !.found = UserInCompany(email, h.companyId)])
       /\ UNCHANGED <<clientVars, trackingVars, companies, users,
                      invitations, vehicles, response>>

\* createInvitation, resumed after the SELECT on users
createInvitation_user(rq) ==
  /\ rq.pc = "ci_user"
  /\ IF rq.found
     THEN Reply(rq, Failure(400, "User already exists in this company"))
     ELSE /\ requests' = Replace(rq,
               [rq EXCEPT !.pc = "ci_invite",
                          !.found = PendingInvitation(rq.email, rq.company)])
          /\ UNCHANGED response
  /\ UNCHANGED <<clientVars, trackingVars, companies, users, invitations,
                 vehicles>>

\* createInvitation, resumed after the SELECT on invitations: inserts
createInvitation_invite(rq) ==
  /\ rq.pc = "ci_invite"
  /\ IF rq.found
     THEN /\ Reply(rq, Failure(400,
                 "Pending invitation already exists for this email"))
          /\ UNCHANGED invitations
     ELSE /\ Len(invitations) < MaxInvitations
          /\ invitations' = Append(invitations,
               [company_id |-> rq.company, email |-> rq.email,
                role |-> rq.role, used |-> FALSE,
                expires_at |-> bnow + InvitationTicks])
          /\ requests' = Replace(rq, [rq EXCEPT !.pc = "ci_insert"])
          /\ UNCHANGED response
  /\ UNCHANGED <<clientVars, trackingVars, companies, users, vehicles>>

\* the route, resumed after createInvitation
createInvitation_insert(rq) ==
  /\ rq.pc = "ci_insert"
  /\ Reply(rq, Success(201, {"data"}))
  /\ UNCHANGED <<clientVars, trackingVars, companies, users, invitations,
                 vehicles>>

\* GET /auth/invite/:token
getInvite(token) ==
  /\ response' = IF ValidInvitation(token)
                  THEN Success(200, {"data"})
                  ELSE Failure(404, "Invalid or expired invitation")
  /\ UNCHANGED <<clientVars, trackingVars, companies, users, invitations,
                 vehicles, requests>>

\* POST /auth/accept-invite up to the first await of acceptInvitation
postAcceptInvite(token) ==
  /\ CanAccept
  /\ requests' = Accept(
       [AccountRequest("accept", "ai_select") EXCEPT
          !.inv = IF ValidInvitation(token) THEN Some(token) ELSE None])
  /\ UNCHANGED <<clientVars, trackingVars, companies, users, invitations,
                 vehicles, response>>

\* the INSERT without the UNIQUE constraint
insertInvitedUserUnconstrained(invitation) ==
  Append(users, UserRow(invitation.company_id, invitation.email,
                        invitation.role))

\* INSERT INTO users with the invitation's company, email and role: the
\* rows after it, the rows as they are when UNIQUE(email, company_id)
\* rejects it
insertInvitedUser(invitation) ==
  IF UserInCompany(invitation.email, invitation.company_id)
  THEN users
  ELSE Append(users, UserRow(invitation.company_id, invitation.email,
                             invitation.role))

\* acceptInvitation, resumed after its SELECT: throws without a valid
\* invitation; otherwise hashes the password and inserts the user, and the
\* route answers 400 with the message of the error when the INSERT fails
acceptInvitation_select(rq) ==
  /\ rq.pc = "ai_select"
  /\ IF rq.inv = None
     THEN /\ Reply(rq, Failure(400, "Invalid or expired invitation"))
          /\ UNCHANGED users
     ELSE LET rows == insertInvitedUser(invitations[Val(rq.inv)])
          IN IF rows = users
             THEN /\ Reply(rq, Failure(400, "duplicate key"))
                  /\ UNCHANGED users
             ELSE /\ Len(rows) <= MaxAccounts
                  /\ users' = rows
                  /\ requests' = Replace(rq, [rq EXCEPT !.pc = "ai_insert"])
                  /\ UNCHANGED response
  /\ UNCHANGED <<clientVars, trackingVars, companies, invitations,
                 vehicles>>

\* acceptInvitation, resumed after the INSERT: marks the invitation used
acceptInvitation_insert(rq) ==
  /\ rq.pc = "ai_insert"
  /\ invitations' = [invitations EXCEPT ![Val(rq.inv)].used = TRUE]
  /\ requests' = Replace(rq, [rq EXCEPT !.pc = "ai_update"])
  /\ UNCHANGED <<clientVars, trackingVars, companies, users, vehicles,
                 response>>

\* the route, resumed after acceptInvitation returned the user
acceptInvitation_update(rq) ==
  /\ rq.pc = "ai_update"
  /\ Reply(rq, Success(201, {"data"}))
  /\ UNCHANGED <<clientVars, trackingVars, companies, users, invitations,
                 vehicles>>

\* createPasswordResetToken(email): the user the reset code is stored for,
\* None when no active user has the email
createPasswordResetToken(email) ==
  LET found == {id \in DOMAIN users :
                  users[id].email = email /\ users[id].is_active}
  IN IF found = {} THEN None ELSE Some(CHOOSE id \in found : TRUE)

\* the body res.json is given in POST /auth/forgot-password
forgotPasswordResponse(result) ==
  Success(200, {"message"} \cup
               (IF result # None THEN {"resetCode"} ELSE {}))

\* POST /auth/forgot-password; the reset code createPasswordResetToken
\* keeps for the user is not read by any other route of the runs
postForgotPassword(email) ==
  /\ response' = forgotPasswordResponse(createPasswordResetToken(email))
  /\ UNCHANGED <<clientVars, trackingVars, companies, users, invitations,
                 vehicles, requests>>

\* n companies are registered, each with the owner POST /auth/register
\* creates
Registered(n) ==
  /\ InitTables /\ InitDevice /\ roundsHalfToEven = FALSE
  /\ taskLimit = MaxTasks
  /\ sessionLimit = MaxSessions
  /\ companies = [c \in 1..n |->
                    [demurrage_threshold_minutes |-> DEFAULT_THRESHOLD]]
  /\ users = [c \in 1..n |-> UserRow(c, c, "owner")]

\* the administration of one company, one request at a time
InitAccounts == Registered(1) /\ requestLimit = 1

\* the users and vehicles of two companies
InitTenants == Registered(MaxTenants) /\ requestLimit = 1

\* the invitations of one company, requests overlapping
InitInvitations == Registered(1) /\ requestLimit = MaxRequests

\* the roles POST /auth/invite is given
InvitedRoles == {"driver"}

\* the routes of a company's administration
AccountsNext ==
  \/ \E h \in Headers, id \in 1..MaxAccounts, upd \in UserUpdates :
       patchUser(h, id, upd)
  \/ \E h \in Headers, rego \in Regos : postVehicle(h, rego)
  \/ \E h \in Headers, id \in 1..MaxVehicles, a \in BOOLEAN :
       patchVehicle(h, id, a)
  \/ \E h \in Headers, id \in 1..MaxVehicles : deleteVehicle(h, id)
  \/ \E h \in Headers, T \in 1..MaxThreshold : patchCompany(h, T)
  \/ \E h \in Headers, e \in Emails, r \in InvitedRoles :
       postInvite(h, e, r)
  \/ \E rq \in Pending : createInvitation_user(rq)
  \/ \E rq \in Pending : createInvitation_invite(rq)
  \/ \E rq \in Pending : createInvitation_insert(rq)
  \/ \E e \in Emails : postForgotPassword(e)

SpecAccounts == InitAccounts /\ [][AccountsNext]_vars

\* the routes that name a user or a vehicle by its id
TenantsNext ==
  \/ \E h \in Headers, id \in 1..MaxAccounts, upd \in UserUpdates :
       patchUser(h, id, upd)
  \/ \E h \in Headers, rego \in Regos : postVehicle(h, rego)
  \/ \E h \in Headers, id \in 1..MaxVehicles, a \in BOOLEAN :
       patchVehicle(h, id, a)
  \/ \E h \in Headers, id \in 1..MaxVehicles : deleteVehicle(h, id)

SpecTenants == InitTenants /\ [][TenantsNext]_vars

\* the routes that create and accept invitations
InvitationsNext ==
  \/ BackendTick
  \/ \E h \in Headers, e \in Emails, r \in InvitedRoles :
       postInvite(h, e, r)
  \/ \E rq \in Pending : createInvitation_user(rq)
  \/ \E rq \in Pending : createInvitation_invite(rq)
  \/ \E rq \in Pending : createInvitation_insert(rq)
  \/ \E token \in 1..MaxInvitations : getInvite(token)
  \/ \E token \in 1..MaxInvitations : postAcceptInvite(token)
  \/ \E rq \in Pending : acceptInvitation_select(rq)
  \/ \E rq \in Pending : acceptInvitation_insert(rq)
  \/ \E rq \in Pending : acceptInvitation_update(rq)

SpecInvitations == InitInvitations /\ [][InvitationsNext]_vars

\* ------------------------------------------------------------------- C26
TablesUnchanged ==
  UNCHANGED <<users, invitations, vehicles, companies, user_sessions,
              stop_events, weekly_demurrage, requests>>
\* the step answers 401 to a header without a valid token and 403 to a
\* token whose role is not among allowedRoles, and changes no table
Denies(h, allowedRoles) ==
  /\ h.kind # "valid" => response'.status = 401 /\ TablesUnchanged
  /\ (h.kind = "valid" /\ h.role \notin allowedRoles)
       => response'.status = 403 /\ TablesUnchanged

\* C26: a request to a route guarded by authenticate and authorize(roles)
\* is answered 401 without a valid bearer token and 403 with a token of
\* another role, and changes no table in both cases: POST /auth/invite,
\* PATCH /auth/users/:userId and POST, PATCH, DELETE /vehicles take effect
\* only for an owner or admin, PATCH /company only for an owner (a step
\* either denies the header in this way or is no step of the route with
\* that header)
C26_GuardedRoutesDenyOtherRoles ==
  [][\A h \in Headers :
       /\ \/ Denies(h, {"owner", "admin"})
          \/ /\ \A id \in 1..MaxAccounts, upd \in UserUpdates :
                  ~patchUser(h, id, upd)
             /\ \A rego \in Regos : ~postVehicle(h, rego)
             /\ \A id \in 1..MaxVehicles, a \in BOOLEAN :
                  ~patchVehicle(h, id, a)
             /\ \A id \in 1..MaxVehicles : ~deleteVehicle(h, id)
             /\ \A e \in Emails, r \in InvitedRoles : ~postInvite(h, e, r)
       /\ \/ Denies(h, {"owner"})
          \/ \A T \in 1..MaxThreshold : ~patchCompany(h, T)
    ]_vars

C26_Witness ==
  /\ response = Failure(403, "Insufficient permissions")
  /\ \E id \in DOMAIN users :
       users[id].role = "driver" /\ users[id].is_active
  /\ vehicles # <<>>
  /\ invitations # <<>>

\* ------------------------------------------------------------------- C27
UsersOfInvitation(id) ==
  {u \in DOMAIN users :
     /\ users[u].email = invitations[id].email
     /\ users[u].company_id = invitations[id].company_id}

\* a step keeps used invitations used, answers 201 to an accept request
\* only with its invitation used, and answers 'Invalid or expired
\* invitation' to requests that read a used invitation
UsedInvitationsStayUsed ==
  /\ \A id \in DOMAIN invitations :
       invitations[id].used => invitations'[id].used
  /\ \A rq \in Pending :
       /\ (rq.pc = "ai_update" /\ Resumes(rq))
            => /\ invitations[Val(rq.inv)].used
               /\ response' = Success(201, {"data"})
       /\ (rq.pc = "ai_select" /\ Resumes(rq) /\ rq.inv = None)
            => /\ response' = Failure(400, "Invalid or expired invitation")
               /\ users' = users
  /\ \A token \in 1..MaxInvitations :
       (token \in DOMAIN invitations /\ invitations[token].used)
         => /\ (postAcceptInvite(token) =>
                 \E nx \in BagToSet(requests') :
                   Accepted(nx) /\ nx.pc = "ai_select" /\ nx.inv = None)
            /\ (getInvite(token) =>
                 response' = Failure(404, "Invalid or expired invitation"))

\* C27: an invitation that is marked used stays used; POST /auth/accept-invite
\* answers 201 only after it marked the invitation used; an acceptInvitation
\* whose SELECT runs on a used invitation finds none, answers 'Invalid or
\* expired invitation' and creates no user, and so does GET /auth/invite;
\* and no invitation ever has more than one user created from it, also when
\* two accept requests interleave
C27_InvitationAcceptedAtMostOnce ==
  /\ [][UsedInvitationsStayUsed]_vars
  /\ [](\A id \in DOMAIN invitations :
          Cardinality(UsersOfInvitation(id)) <= 1)

C27_Witness ==
  /\ \E id \in DOMAIN invitations :
       invitations[id].used /\ Cardinality(UsersOfInvitation(id)) = 1
  /\ response = Failure(400, "duplicate key")
  /\ requests = EmptyBag

\* ------------------------------------------------------------------- C28
\* C28: the response of POST /auth/forgot-password is the one the route
\* gives, in the same state, for every other email: its status and fields
\* are the same for the email of an account and for an email of none
C28_ForgotPasswordAnswersAlike ==
  [][\A e1 \in Emails :
       postForgotPassword(e1) =>
         \A e2 \in Emails :
           response' = forgotPasswordResponse(createPasswordResetToken(e2))
    ]_vars

\* ------------------------------------------------------------------- C29
\* the step is one of a route that names a user or a vehicle by its id,
\* taken with header h
NamesRowById(h) ==
  \/ \E id \in 1..MaxAccounts, upd \in UserUpdates : patchUser(h, id, upd)
  \/ \E id \in 1..MaxVehicles, a \in BOOLEAN : patchVehicle(h, id, a)
  \/ \E id \in 1..MaxVehicles : deleteVehicle(h, id)

\* C29: a PATCH /auth/users/:userId, PATCH /vehicles/:vehicleId or DELETE
\* /vehicles/:vehicleId request with the token of a user of company A leaves
\* every users and vehicles row of another company as it is, whatever id it
\* names
C29_OtherCompaniesRowsUntouched ==
  [][\A h \in Headers :
       (h.kind = "valid" /\ NamesRowById(h)) =>
         /\ \A id \in DOMAIN users :
              users[id].company_id # h.companyId => users'[id] = users[id]
         /\ \A id \in DOMAIN vehicles :
              vehicles[id].company_id # h.companyId
                => vehicles'[id] = vehicles[id]
    ]_vars

\* --------------------------------------------- clearing of tracking data
\* saveInvoice: stores the invoice of a weekly record
saveInvoice(week) ==
  /\ db
  /\ week \in DOMAIN weeklyDemurrage
  /\ invoices' = invoices \cup {week}
  /\ UNCHANGED <<runVars, backendVars, classifierVars, motionVars, now,
                 encryptionKey, db, stopEvents, weeklyDemurrage, settings,
                 nextId, isTracking, currentStopEvent, stateCallback,
                 updateInterval, intervals, pendingReason,
                 backgroundTracking, tasks>>

\* DELETE FROM stop_events; DELETE FROM weekly_demurrage only
clearStopEventsAndWeeks ==
  /\ stopEvents' = <<>>
  /\ weeklyDemurrage' = <<>>
  /\ UNCHANGED invoices

\* the three DELETE statements of clearAllTrackingData (on the web, the
\* three Map.clear() calls)
clearTables ==
  /\ stopEvents' = <<>>
  /\ weeklyDemurrage' = <<>>
  /\ invoices' = {}

\* handleClearData's onPress calls clearAllTrackingData: on the web it
\* clears at once, on a native build it awaits ensureDb first
clearAllTrackingData ==
  /\ db
  /\ HasFree(tasks)
  /\ IF isWebPlatform
     THEN /\ clearTables
          /\ tasks' = Add(tasks, NewTask("handleClearData", "clear_exec"))
     ELSE /\ tasks' = Add(tasks, NewTask("handleClearData", "clear_ensureDb"))
          /\ UNCHANGED <<stopEvents, weeklyDemurrage, invoices>>
  /\ UNCHANGED <<runVars, backendVars, classifierVars, motionVars, now,
                 encryptionKey, db, settings, nextId, isTracking,
                 currentStopEvent, stateCallback, updateInterval, intervals,
                 pendingReason, backgroundTracking>>

\* clearAllTrackingData, resumed after ensureDb: execAsync runs the DELETEs
clearAllTrackingData_ensureDb(tk) ==
  /\ At(tk, "clear_ensureDb")
  /\ clearTables
  /\ tasks' = Goto(tk, "clear_exec")
  /\ UNCHANGED <<runVars, backendVars, classifierVars, motionVars, now,
                 encryptionKey, db, settings, nextId, isTracking,
                 currentStopEvent, stateCallback, updateInterval, intervals,
                 pendingReason, backgroundTracking>>

\* handleClearData, resumed after clearAllTrackingData: refreshAllData
\* reads the store
handleClearData_cleared(tk) ==
  /\ At(tk, "clear_exec")
  /\ tasks' = Finish(tk)
  /\ UNCHANGED <<runVars, backendVars, classifierVars, motionVars, now,
                 encryptionKey, db, stopEvents, weeklyDemurrage, invoices,
                 settings, nextId, isTracking, currentStopEvent,
                 stateCallback, updateInterval, intervals, pendingReason,
                 backgroundTracking>>

\* a native or a web build
InitClear ==
  /\ InitTables /\ InitDeployment /\ roundsHalfToEven = FALSE
  /\ taskLimit = MaxTasks
  /\ isWebPlatform \in BOOLEAN
  /\ keyStore = 0
  /\ initOutcome = "none"
  /\ settingsRead = "none"

ClearNext ==
  \/ initialize
  \/ Tick
  \/ \E T \in 0..MaxThreshold : saveSettings(T)
  \/ startTracking(NoReason)
  \/ \E tk \in InFlight : startTracking_getCurrent(tk)
  \/ \E tk \in InFlight : startMotionDetection_available(tk)
  \/ \E tk \in InFlight : startMotionDetection_permission(tk)
  \/ stopTracking
  \/ motionNotify
  \/ \E tk \in InFlight : startStopEvent_settings(tk)
  \/ \E tk \in InFlight : startStopEvent_save(tk)
  \/ \E tk \in InFlight : endStopEvent_settings(tk)
  \/ \E tk \in InFlight : endStopEvent_update(tk)
  \/ \E tk \in InFlight : recalculateWeeklyDemurrage_events(tk)
  \/ \E tk \in InFlight : recalculateWeeklyDemurrage_update(tk)
  \/ \E tk \in InFlight : recalculateWeeklyDemurrage_get(tk)
  \/ \E week \in 0..MaxTime : saveInvoice(week)
  \/ clearAllTrackingData
  \/ \E tk \in InFlight : clearAllTrackingData_ensureDb(tk)
  \/ \E tk \in InFlight : handleClearData_cleared(tk)

SpecClear == InitClear /\ [][ClearNext]_vars

\* the step runs the deletes of clearAllTrackingData
Clears ==
  \/ \E tk \in InFlight :
       At(tk, "clear_ensureDb") /\ CopiesIn(tk, tasks') < CopiesIn(tk, tasks)
  \/ /\ isWebPlatform
     /\ \E tk \in BagToSet(tasks') :
          At(tk, "clear_exec") /\ CopiesIn(tk, tasks') > CopiesIn(tk, tasks)

====
